---- MODULE Spec2Model ----
(***************************************************************************)
(* Model of the SAP hosts filter plugin (sap_hosts_filters.py).            *)
(*                                                                         *)
(* Strings are sequences of small naturals (character codes).  An IP       *)
(* address string is a miniature dotted form: exactly two "octets", each   *)
(* 0 or 1, so the address space is 0..3.  A CIDR string is the address     *)
(* octets optionally followed by a prefix length 0..2.  Anything else      *)
(* (wrong length, an octet out of range, a prefix such as /9, blanks) is   *)
(* malformed, as in Python's ipaddress module.  None is the sentinel       *)
(* <<-1>>, which is not a string.  Character codes: 0,1 digits; 3 the dot; *)
(* 5 the dash; 9 blank; 10..19 lower-case letters, 110..119 their upper    *)
(* case; 20..23 and 30..35 stand for the fixed words of suffixes and       *)
(* virtual hostnames.                                                      *)
(*                                                                         *)
(* The state is the input of the two filters (ansible_vars for             *)
(* sdaf_generate_sap_hosts, network_config for                             *)
(* sdaf_validate_network_config) and the outcome of each: not yet applied, *)
(* returned with its value, or raised.  Both filters are pure; each action *)
(* applies one of them to its input once.                                  *)
(*                                                                         *)
(* The second part models one run of the Ansible module hana_lifecycle.py: *)
(* its parameters, the position of the run, the time since the wait loop   *)
(* started, the result of the last command (none if it did not complete),  *)
(* the last status read, the commands started so far and the call that     *)
(* ended the run                                                           *)
(* (exit_json or fail_json, which both end the process).  What a command   *)
(* does is the environment's choice: it completes with a return code and   *)
(* an output, runs into the timeout, or cannot be started.  Output text    *)
(* uses further character codes: 6 comma, 7 newline, 8 colon, 40..99 fixed *)
(* words.  The fields raw_output, stderr                                   *)
(* and the captured output of hdbnsutil are carried through unchanged by   *)
(* the code and are left out.                                              *)
(*                                                                         *)
(* Each part has its own specification; the variables of the other part    *)
(* keep their initial values.                                              *)
(***************************************************************************)
EXTENDS Integers, Sequences, FiniteSets, TLC

VARIABLES ansible_vars, network_config, gen, val

VARIABLES params, sapcontrol_path, pc, clock, command_result, status, commands,
          outcome

filterVars == <<ansible_vars, network_config, gen, val>>
lifecycleVars ==
    <<params, sapcontrol_path, pc, clock, command_result, status, commands, outcome>>
vars == <<filterVars, lifecycleVars>>

\* ------------------------------------------------------------------ bounds
MaxHosts == 3
MaxIPs == 2

\* ------------------------------------------------------- Python primitives
None == <<-1>>
EmptyStr == <<>>

\* the characters str.strip() removes
Whitespace == {9}

\* Python truthiness of an Optional[str]
Truthy(v) == v # None /\ v # EmptyStr

\* dict.get(key, default)
Get(d, k, default) == IF k \in DOMAIN d THEN d[k] ELSE default

\* str(bool) as rendered by an f-string
PyStr(b) == IF b THEN "True" ELSE "False"

RECURSIVE LStrip(_)
LStrip(s) == IF s = <<>> THEN <<>>
             ELSE IF Head(s) \in Whitespace THEN LStrip(Tail(s)) ELSE s

RECURSIVE RStrip(_)
RStrip(s) == IF s = <<>> THEN <<>>
             ELSE IF s[Len(s)] \in Whitespace THEN RStrip(SubSeq(s, 1, Len(s) - 1)) ELSE s

\* str.strip()
Strip(s) == RStrip(LStrip(s))

\* Python's "<" on str: lexicographic by code point, a proper prefix is smaller
RECURSIVE StrLess(_, _)
StrLess(s, t) ==
    IF t = <<>> THEN FALSE
    ELSE IF s = <<>> THEN TRUE
    ELSE IF Head(s) < Head(t) THEN TRUE
    ELSE IF Head(s) > Head(t) THEN FALSE
    ELSE StrLess(Tail(s), Tail(t))

\* insertion keeping equal elements in arrival order (sorted() is stable)
RECURSIVE Insert(_, _)
Insert(x, s) == IF s = <<>> THEN <<x>>
                ELSE IF StrLess(x, Head(s)) THEN <<x>> \o s
                ELSE <<Head(s)>> \o Insert(x, Tail(s))

RECURSIVE SortedFrom(_, _)
SortedFrom(s, acc) == IF s = <<>> THEN acc
                      ELSE SortedFrom(Tail(s), Insert(Head(s), acc))

\* variant: the list is taken in the order given
AsGiven(s) == s

\* sorted(list_of_str)
Sorted(s) == SortedFrom(s, <<>>)

\* ------------------------------------------------------ ipaddress (stdlib)
\* the exception ipaddress.ip_address()/ip_network() raise on bad input
ParseError == "ValueError"

\* "except ipaddress.AddressValueError"
AddrOnly == {"AddressValueError"}

\* "except (ipaddress.AddressValueError, ipaddress.NetmaskValueError)"
AddrOrMask == {"AddressValueError", "NetmaskValueError"}

\* "except (AddressValueError, NetmaskValueError)" meeting exception kind k:
\* a handler catches its own classes and their subclasses, not a base class
Catches(handler, k) == k \in handler

IsOctet(o) == o \in 0..1

\* ipaddress.ip_address(s) succeeds
IsIP(s) == s # None /\ Len(s) = 2 /\ \A i \in 1..2 : IsOctet(s[i])

\* the integer value of a well-formed address
IPVal(s) == 2 * s[1] + s[2]

\* ipaddress.ip_network(s, strict=False) succeeds: "a.b" or "a.b/p"
IsNet(s) == /\ s # None
            /\ Len(s) \in {2, 3}
            /\ \A i \in 1..2 : IsOctet(s[i])
            /\ Len(s) = 3 => s[3] \in 0..2

PrefixLen(c) == IF Len(c) = 3 THEN c[3] ELSE 2

\* number of addresses in the block of network c
BlockSize(c) == IF PrefixLen(c) = 0 THEN 4 ELSE IF PrefixLen(c) = 1 THEN 2 ELSE 1

\* network address (host bits masked, strict=False)
NetBase(c) == (IPVal(SubSeq(c, 1, 2)) \div BlockSize(c)) * BlockSize(c)

\* ip_obj in network
InNet(ip, c) == /\ NetBase(c) <= IPVal(ip)
                /\ IPVal(ip) < NetBase(c) + BlockSize(c)

\* variant: only networks with the same base address count as overlapping
OverlapsSameBase(c1, c2) == NetBase(c1) = NetBase(c2)

\* net1.overlaps(net2)
Overlaps(c1, c2) == /\ NetBase(c1) < NetBase(c2) + BlockSize(c2)
                    /\ NetBase(c2) < NetBase(c1) + BlockSize(c1)

\* ------------------------------------------------------------ text pieces
Dot == <<3>>
SuffixHsr == <<5, 20>>
SuffixHana == <<5, 21>>
SuffixInter == <<5, 22>>
SuffixStorage == <<5, 23>>
Suffixes == {SuffixHsr, SuffixHana, SuffixInter, SuffixStorage}
WordScs == <<30>>
WordErs == <<31>>
WordDb == <<32>>
WordCl1 == <<33>>
WordCl2 == <<34>>
WordCl == <<35>>

\* str.upper() / str.lower()
Upper(s) == [i \in DOMAIN s |-> IF s[i] \in 10..19 THEN s[i] + 100 ELSE s[i]]
Lower(s) == [i \in DOMAIN s |-> IF s[i] \in 110..119 THEN s[i] - 100 ELSE s[i]]

\* column widths of one hosts entry
IpWidth == 19
FqdnWidth == 81
HostWidth == 17

\* blanks appended by the format spec "<w": none when the text is wider
PadLen(s, w) == IF Len(s) < w THEN w - Len(s) ELSE 0

\* one output line; every line has the same shape
Line(kind, text, arg, flag) ==
    [kind |-> kind, text |-> text, arg |-> arg, flag |-> flag,
     ip |-> <<>>, fqdn |-> <<>>, hostname |-> <<>>, pad |-> <<0, 0, 0>>]

Comment(text, arg, flag) == Line("comment", text, arg, flag)

BlankLine == Line("blank", "", <<>>, "")

\* three left-justified fields
_format_hosts_entry(ip_address, fqdn, hostname) ==
    [kind |-> "entry", text |-> "", arg |-> <<>>, flag |-> "",
     ip |-> ip_address, fqdn |-> fqdn, hostname |-> hostname,
     pad |-> <<PadLen(ip_address, IpWidth), PadLen(fqdn, FqdnWidth),
               PadLen(hostname, HostWidth)>>]

\* results of calls that may raise
Ret(v) == [raised |-> FALSE, val |-> v]
Raise == [raised |-> TRUE, val |-> <<>>]

\* "x in list"
InList(x, s) == \E i \in DOMAIN s : s[i] = x

\* --------------------------------------------------- configuration extract
_extract_sap_configuration(av) ==
    [sap_sid |-> Upper(Get(av, "sap_sid", EmptyStr)),
     sap_fqdn |-> Get(av, "sap_fqdn", EmptyStr),
     db_sid |-> Upper(Get(av, "db_sid", EmptyStr)),
     database_scale_out |-> Get(av, "database_scale_out", FALSE),
     database_high_availability |->
         Get(av, "database_high_availability", Get(av, "db_high_availability", FALSE)),
     db_instance_number |-> Get(av, "db_instance_number", <<0, 0>>),
     db_lb_ip |-> Get(av, "database_loadbalancer_ip", Get(av, "db_lb_ip", None)),
     scs_high_availability |-> Get(av, "scs_high_availability", FALSE),
     scs_instance_number |-> Get(av, "scs_instance_number", <<0, 0>>),
     ers_instance_number |-> Get(av, "ers_instance_number", <<0, 1>>),
     scs_lb_ip |-> Get(av, "scs_lb_ip", None),
     ers_lb_ip |-> Get(av, "ers_lb_ip", None),
     custom_scs_virtual_hostname |-> Get(av, "custom_scs_virtual_hostname", None),
     custom_ers_virtual_hostname |-> Get(av, "custom_ers_virtual_hostname", None),
     custom_db_virtual_hostname |-> Get(av, "custom_db_virtual_hostname", None),
     custom_pas_virtual_hostname |-> Get(av, "custom_pas_virtual_hostname", None),
     custom_app_virtual_hostname |-> Get(av, "custom_app_virtual_hostname", None),
     custom_web_virtual_hostname |-> Get(av, "custom_web_virtual_hostname", None)]

\* value if non-empty after trimming, else None
PresentOrNone(s) == IF Truthy(s) /\ Len(Strip(s)) > 0 THEN s ELSE None

_extract_network_configuration(av) ==
    [subnet_cidr_db |-> PresentOrNone(Get(av, "subnet_cidr_db", EmptyStr)),
     subnet_cidr_storage |-> PresentOrNone(Get(av, "subnet_cidr_storage", EmptyStr)),
     subnet_cidr_client |-> PresentOrNone(Get(av, "subnet_cidr_client", EmptyStr))]

\* variant: the viewing host counts as a DB VM when it has any tier
IsCurrentHostDbVmAnyTier(av) ==
    LET current_hostname == Get(av, "inventory_hostname", EmptyStr)
        current_host_vars == Get(Get(av, "hostvars", <<>>), current_hostname, <<>>)
    IN  Get(current_host_vars, "supported_tiers", <<>>) # <<>>

\* "hana" in hostvars.get(inventory_hostname, {}).get("supported_tiers", [])
IsCurrentHostDbVm(av) ==
    LET current_hostname == Get(av, "inventory_hostname", EmptyStr)
        current_host_vars == Get(Get(av, "hostvars", <<>>), current_hostname, <<>>)
    IN  InList("hana", Get(current_host_vars, "supported_tiers", <<>>))

\* ------------------------------------------------------ membership checks
\* variant: without a client subnet every address counts as inside it
_is_ip_in_client_subnet_open(ip_address, net) ==
    IF ~Truthy(net.subnet_cidr_client) THEN Ret(TRUE)
    ELSE IF ~IsNet(net.subnet_cidr_client) \/ ~IsIP(ip_address)
         THEN IF Catches(AddrOrMask, ParseError) THEN Ret(FALSE) ELSE Raise
    ELSE Ret(InNet(ip_address, net.subnet_cidr_client))

\* does the address belong to the client subnet
_is_ip_in_client_subnet(ip_address, net) ==
    IF ~Truthy(net.subnet_cidr_client) THEN Ret(FALSE)
    ELSE IF ~IsNet(net.subnet_cidr_client) \/ ~IsIP(ip_address)
         THEN IF Catches(AddrOrMask, ParseError) THEN Ret(FALSE) ELSE Raise
    ELSE Ret(InNet(ip_address, net.subnet_cidr_client))

\* the for loop of _get_client_subnet_ip_or_primary over the remaining ips
RECURSIVE FirstClientIp(_, _, _)
FirstClientIp(ips, client, primary_ip) ==
    IF ips = <<>> THEN Ret(primary_ip)
    ELSE IF ~IsIP(Head(ips))
         THEN IF Catches(AddrOnly, ParseError)
              THEN FirstClientIp(Tail(ips), client, primary_ip)
              ELSE IF Catches(AddrOrMask, ParseError) THEN Ret(primary_ip) ELSE Raise
    ELSE IF InNet(Head(ips), client) THEN Ret(Head(ips))
    ELSE FirstClientIp(Tail(ips), client, primary_ip)

\* variant: the client subnet is not searched
_get_primary_only(ip_addresses, net, primary_ip) == Ret(primary_ip)

\* the first address in the client subnet, or the primary one
_get_client_subnet_ip_or_primary(ip_addresses, net, primary_ip) ==
    IF ~Truthy(net.subnet_cidr_client) THEN Ret(primary_ip)
    ELSE IF ~IsNet(net.subnet_cidr_client)
         THEN IF Catches(AddrOrMask, ParseError) THEN Ret(primary_ip) ELSE Raise
    ELSE FirstClientIp(ip_addresses, net.subnet_cidr_client, primary_ip)

\* one "if network_config[key]: try ... except" block of _get_database_ip_suffix:
\* "hit" returns the suffix, "miss" falls through to the next block,
\* "outer" is an exception handed to the enclosing try
SubnetBlock(ip_address, cidr) ==
    IF ~Truthy(cidr) THEN "miss"
    ELSE IF ~IsNet(cidr)
         THEN IF Catches(AddrOrMask, ParseError) THEN "miss" ELSE "outer"
    ELSE IF InNet(ip_address, cidr) THEN "hit" ELSE "miss"

\* variant: the storage subnet is tried before the DB subnet
_get_database_ip_suffix_storage_first(ip_address, config, net) ==
    LET Escaped == IF Catches(AddrOnly, ParseError) THEN Ret(None) ELSE Raise
    IN  IF ~IsIP(ip_address) THEN Escaped
        ELSE LET db == SubnetBlock(ip_address, net.subnet_cidr_db)
                 st == SubnetBlock(ip_address, net.subnet_cidr_storage)
             IN  IF st = "outer" THEN Escaped
                 ELSE IF st = "hit"
                      THEN Ret(IF config.database_high_availability
                               THEN SuffixInter ELSE SuffixStorage)
                 ELSE IF db = "outer" THEN Escaped
                 ELSE IF db = "hit"
                      THEN Ret(IF config.database_high_availability
                               THEN SuffixHsr ELSE SuffixHana)
                 ELSE Ret(None)

\* the suffix of a scale-out address, or None
_get_database_ip_suffix(ip_address, config, net) ==
    LET Escaped == IF Catches(AddrOnly, ParseError) THEN Ret(None) ELSE Raise
    IN  IF ~IsIP(ip_address) THEN Escaped
        ELSE LET db == SubnetBlock(ip_address, net.subnet_cidr_db)
                 st == SubnetBlock(ip_address, net.subnet_cidr_storage)
             IN  IF db = "outer" THEN Escaped
                 ELSE IF db = "hit"
                      THEN Ret(IF config.database_high_availability
                               THEN SuffixHsr ELSE SuffixHana)
                 ELSE IF st = "outer" THEN Escaped
                 ELSE IF st = "hit"
                      THEN Ret(IF config.database_high_availability
                               THEN SuffixInter ELSE SuffixStorage)
                 ELSE Ret(None)

\* the suffixed entry of one secondary address, if it has a suffix
_generate_database_scale_out_entries(hostname, ip_address, config, net) ==
    LET suffix == _get_database_ip_suffix(ip_address, config, net)
    IN  IF suffix.raised THEN Raise
        ELSE IF Truthy(suffix.val)
             THEN Ret(<<_format_hosts_entry(ip_address,
                                         hostname \o suffix.val \o Dot \o config.sap_fqdn,
                                         hostname \o suffix.val)>>)
        ELSE Ret(<<>>)

\* tier to configuration key
tier_mapping == [pas |-> "custom_pas_virtual_hostname",
                app |-> "custom_app_virtual_hostname",
                web |-> "custom_web_virtual_hostname"]

\* one entry per tier with a custom virtual hostname
RECURSIVE _generate_custom_virtual_hostname_entries(_, _, _, _, _)
_generate_custom_virtual_hostname_entries(hostname, host_vars, config, primary_ip, tiers) ==
    IF tiers = <<>> THEN <<>>
    ELSE LET tier == Head(tiers)
             rest == _generate_custom_virtual_hostname_entries(
                         hostname, host_vars, config, primary_ip, Tail(tiers))
         IN  IF tier \in DOMAIN tier_mapping
             THEN LET custom_key == tier_mapping[tier]
                      custom_hostname == IF Truthy(config[custom_key])
                                         THEN config[custom_key]
                                         ELSE Get(host_vars, custom_key, None)
                  IN  IF Truthy(custom_hostname)
                      THEN <<_format_hosts_entry(primary_ip,
                                              custom_hostname \o Dot \o config.sap_fqdn,
                                              custom_hostname)>> \o rest
                      ELSE rest
             ELSE rest

\* ---------------------------------------------------------- physical hosts
\* "for secondary_ip in secondary_ips" of the filtered branch
RECURSIVE FilteredScaleOutEntries(_, _, _, _)
FilteredScaleOutEntries(hostname, secondary_ips, config, net) ==
    IF secondary_ips = <<>> THEN Ret(<<>>)
    ELSE LET inClient == _is_ip_in_client_subnet(Head(secondary_ips), net)
         IN  IF inClient.raised THEN Raise
             ELSE LET here == IF inClient.val
                              THEN _generate_database_scale_out_entries(
                                       hostname, Head(secondary_ips), config, net)
                              ELSE Ret(<<>>)
                  IN  IF here.raised THEN Raise
                      ELSE LET rest == FilteredScaleOutEntries(
                                           hostname, Tail(secondary_ips), config, net)
                           IN  IF rest.raised THEN Raise
                               ELSE Ret(here.val \o rest.val)

\* "for secondary_ip in secondary_ips" of the unfiltered branch
RECURSIVE AllScaleOutEntries(_, _, _, _)
AllScaleOutEntries(hostname, secondary_ips, config, net) ==
    IF secondary_ips = <<>> THEN Ret(<<>>)
    ELSE LET here == _generate_database_scale_out_entries(
                         hostname, Head(secondary_ips), config, net)
         IN  IF here.raised THEN Raise
             ELSE LET rest == AllScaleOutEntries(
                                  hostname, Tail(secondary_ips), config, net)
                  IN  IF rest.raised THEN Raise
                      ELSE Ret(here.val \o rest.val)

\* variant: the viewing host is not consulted
apply_filtering_any_viewer(is_current_host_db_vm, is_target_host_db_vm, config) ==
    /\ is_target_host_db_vm
    /\ config.database_scale_out

\* variant: the scale-out flag is not consulted
apply_filtering_any_topology(is_current_host_db_vm, is_target_host_db_vm, config) ==
    /\ ~is_current_host_db_vm
    /\ is_target_host_db_vm

\* is the target shown through the isolation filter
apply_filtering(is_current_host_db_vm, is_target_host_db_vm, config) ==
    /\ ~is_current_host_db_vm
    /\ is_target_host_db_vm
    /\ config.database_scale_out

\* all entries of one host, filtered when isolation applies
_generate_single_host_entries(hostname, host_vars, config, net, is_current_host_db_vm) ==
    LET ip_addresses == Get(host_vars, "ipadd", <<>>)
        primary_ip == ip_addresses[1]
        secondary_ips == IF Len(ip_addresses) > 1 THEN Tail(ip_addresses) ELSE <<>>
        supported_tiers == Get(host_vars, "supported_tiers", <<>>)
        is_target_host_db_vm == InList("hana", supported_tiers)
        PrimaryEntry(ip) ==
            _format_hosts_entry(ip, hostname \o Dot \o config.sap_fqdn, hostname)
    IN  IF ip_addresses = <<>> THEN Ret(<<>>)
        ELSE IF apply_filtering(is_current_host_db_vm, is_target_host_db_vm, config)
        THEN LET filtered == _get_client_subnet_ip_or_primary(ip_addresses, net, primary_ip)
             IN  IF filtered.raised THEN Raise
                 ELSE LET first == IF Truthy(filtered.val)
                                   THEN <<PrimaryEntry(filtered.val)>> ELSE <<>>
                          custom == _generate_custom_virtual_hostname_entries(
                                        hostname, host_vars, config, filtered.val,
                                        supported_tiers)
                          scale == FilteredScaleOutEntries(
                                       hostname, secondary_ips, config, net)
                      IN  IF scale.raised THEN Raise
                          ELSE Ret(first \o custom \o scale.val)
        ELSE LET first == <<PrimaryEntry(primary_ip)>>
                 custom == _generate_custom_virtual_hostname_entries(
                               hostname, host_vars, config, primary_ip, supported_tiers)
                 scale == IF config.database_scale_out /\ is_target_host_db_vm
                          THEN AllScaleOutEntries(hostname, secondary_ips, config, net)
                          ELSE Ret(<<>>)
             IN  IF scale.raised THEN Raise
                 ELSE Ret(first \o custom \o scale.val)

\* the loop of _generate_physical_host_entries over the sorted play hosts
RECURSIVE HostLoop(_, _, _, _, _)
HostLoop(hostnames, hostvars, config, net, is_current_host_db_vm) ==
    IF hostnames = <<>> THEN Ret(<<>>)
    ELSE LET hostname == Head(hostnames)
             here == IF hostname \notin DOMAIN hostvars THEN Ret(<<>>)
                     ELSE _generate_single_host_entries(hostname, hostvars[hostname],
                                                    config, net, is_current_host_db_vm)
         IN  IF here.raised THEN Raise
             ELSE LET rest == HostLoop(Tail(hostnames), hostvars, config, net,
                                       is_current_host_db_vm)
                  IN  IF rest.raised THEN Raise
                      ELSE Ret(here.val \o rest.val)

\* variant: without the guard, a play host missing from hostvars is a KeyError
_generate_physical_host_entries_unguarded(av, config, net, is_current_host_db_vm) ==
    LET ansible_play_hosts == Get(av, "ansible_play_hosts", <<>>)
        hostvars == Get(av, "hostvars", <<>>)
    IN  IF \E i \in DOMAIN ansible_play_hosts : ansible_play_hosts[i] \notin DOMAIN hostvars
        THEN Raise
        ELSE HostLoop(Sorted(ansible_play_hosts), hostvars, config, net,
                      is_current_host_db_vm)

\* the entries of all play hosts
_generate_physical_host_entries(av, config, net, is_current_host_db_vm) ==
    HostLoop(Sorted(Get(av, "ansible_play_hosts", <<>>)), Get(av, "hostvars", <<>>),
             config, net, is_current_host_db_vm)

\* ----------------------------------------------------- header and footer
\* the comment lines opening the main block
_generate_main_section_header(config, av) ==
    LET ansible_play_hosts == Get(av, "ansible_play_hosts", <<>>)
        net == _extract_network_configuration(av)
        is_current_host_db_vm == IsCurrentHostDbVm(av)
        network_isolation_active ==
            /\ config.database_scale_out
            /\ ~is_current_host_db_vm
            /\ net.subnet_cidr_client # None
        header ==
            << Line("begin", "ANSIBLE MANAGED BLOCK", config.sap_sid, ""),
               Comment("SID", config.sap_sid, ""),
               Comment("Hosts", <<Len(ansible_play_hosts)>>, ""),
               Comment("Scale out", <<>>, PyStr(config.database_scale_out)),
               Comment("High availability", <<>>,
                       PyStr(config.database_high_availability)),
               Comment("Subnet DB valid", <<>>, PyStr(net.subnet_cidr_db # None)),
               Comment("Subnet Storage valid", <<>>,
                       PyStr(net.subnet_cidr_storage # None)),
               Comment("Subnet Client valid", <<>>,
                       PyStr(net.subnet_cidr_client # None)) >>
    IN  IF network_isolation_active
        THEN Append(header, Comment("Network isolation: Active", <<>>, ""))
        ELSE IF config.database_scale_out /\ is_current_host_db_vm
        THEN Append(header, Comment("Network isolation: Disabled", <<>>, ""))
        ELSE header

\* variant: the main block is left open
_generate_main_section_footer_none(config) == <<>>

\* the line closing the main block
_generate_main_section_footer(config) ==
    <<Line("end", "ANSIBLE MANAGED BLOCK", config.sap_sid, "")>>

\* ------------------------------------------------ virtual hostname sections
\* custom name, else <sid>scs<nr>cl1
_get_scs_virtual_hostname(config) ==
    IF Truthy(config.custom_scs_virtual_hostname)
    THEN config.custom_scs_virtual_hostname
    ELSE Lower(config.sap_sid) \o WordScs \o config.scs_instance_number \o WordCl1

\* custom name, else <sid>ers<nr>cl2
_get_ers_virtual_hostname(config) ==
    IF Truthy(config.custom_ers_virtual_hostname)
    THEN config.custom_ers_virtual_hostname
    ELSE Lower(config.sap_sid) \o WordErs \o config.ers_instance_number \o WordCl2

\* custom name, else <sid><dbsid>db<nr>cl
_get_db_virtual_hostname(config) ==
    IF Truthy(config.custom_db_virtual_hostname)
    THEN config.custom_db_virtual_hostname
    ELSE Lower(config.sap_sid) \o Lower(config.db_sid) \o WordDb
             \o config.db_instance_number \o WordCl

\* variant: the section needs a load-balancer IP, as the DB section does
_generate_scs_ers_section_if_any_ip(config) ==
    IF ~config.scs_high_availability
       \/ (~Truthy(config.scs_lb_ip) /\ ~Truthy(config.ers_lb_ip)) THEN <<>>
    ELSE LET scs_virtual_hostname == _get_scs_virtual_hostname(config)
             ers_virtual_hostname == _get_ers_virtual_hostname(config)
             scs == IF Truthy(config.scs_lb_ip)
                    THEN <<_format_hosts_entry(config.scs_lb_ip,
                               scs_virtual_hostname \o Dot \o config.sap_fqdn,
                               scs_virtual_hostname)>>
                    ELSE <<>>
             ers == IF Truthy(config.ers_lb_ip)
                    THEN <<_format_hosts_entry(config.ers_lb_ip,
                               ers_virtual_hostname \o Dot \o config.sap_fqdn,
                               ers_virtual_hostname)>>
                    ELSE <<>>
         IN  <<Line("begin", "ASCS/ERS Entries", scs_virtual_hostname, "")>>
                 \o scs \o ers
                 \o <<Line("end", "ASCS/ERS Entries", scs_virtual_hostname, "")>>

\* the SCS/ERS virtual hostname section
_generate_scs_ers_section(config) ==
    IF ~config.scs_high_availability THEN <<>>
    ELSE LET scs_virtual_hostname == _get_scs_virtual_hostname(config)
             ers_virtual_hostname == _get_ers_virtual_hostname(config)
             scs == IF Truthy(config.scs_lb_ip)
                    THEN <<_format_hosts_entry(config.scs_lb_ip,
                               scs_virtual_hostname \o Dot \o config.sap_fqdn,
                               scs_virtual_hostname)>>
                    ELSE <<>>
             ers == IF Truthy(config.ers_lb_ip)
                    THEN <<_format_hosts_entry(config.ers_lb_ip,
                               ers_virtual_hostname \o Dot \o config.sap_fqdn,
                               ers_virtual_hostname)>>
                    ELSE <<>>
         IN  <<Line("begin", "ASCS/ERS Entries", scs_virtual_hostname, "")>>
                 \o scs \o ers
                 \o <<Line("end", "ASCS/ERS Entries", scs_virtual_hostname, "")>>

\* variant: the section follows the HA flag alone
_generate_database_section_on_flag(config) ==
    IF ~config.database_high_availability THEN <<>>
    ELSE LET db_virtual_hostname == _get_db_virtual_hostname(config)
         IN  << Line("begin", "DB Entries", db_virtual_hostname, ""),
                _format_hosts_entry(config.db_lb_ip,
                                 db_virtual_hostname \o Dot \o config.sap_fqdn,
                                 db_virtual_hostname),
                Line("end", "DB Entries", db_virtual_hostname, "") >>

\* the DB virtual hostname section
_generate_database_section(config) ==
    IF ~config.database_high_availability \/ ~Truthy(config.db_lb_ip) THEN <<>>
    ELSE LET db_virtual_hostname == _get_db_virtual_hostname(config)
         IN  << Line("begin", "DB Entries", db_virtual_hostname, ""),
                _format_hosts_entry(config.db_lb_ip,
                                 db_virtual_hostname \o Dot \o config.sap_fqdn,
                                 db_virtual_hostname),
                Line("end", "DB Entries", db_virtual_hostname, "") >>

\* variant: a viewer under isolation gets no virtual hostname section
_generate_virtual_hostname_sections_isolated(av, config) ==
    LET scs_ers_section == _generate_scs_ers_section(config)
        db_section == _generate_database_section(config)
    IN  IF config.database_scale_out /\ ~IsCurrentHostDbVm(av) THEN <<>>
        ELSE (IF scs_ers_section # <<>> THEN <<BlankLine>> \o scs_ers_section ELSE <<>>)
             \o (IF db_section # <<>> THEN <<BlankLine>> \o db_section ELSE <<>>)

\* both virtual hostname sections, each after a blank line
_generate_virtual_hostname_sections(av, config) ==
    LET scs_ers_section == _generate_scs_ers_section(config)
        db_section == _generate_database_section(config)
    IN  (IF scs_ers_section # <<>> THEN <<BlankLine>> \o scs_ers_section ELSE <<>>)
        \o (IF db_section # <<>> THEN <<BlankLine>> \o db_section ELSE <<>>)

\* ------------------------------------------------------------ main filter
\* the complete hosts file content, or the exception
generate_sap_hosts_entries(av) ==
    LET config == _extract_sap_configuration(av)
        net == _extract_network_configuration(av)
        is_current_host_db_vm == IsCurrentHostDbVm(av)
        physical_entries ==
            _generate_physical_host_entries(av, config, net, is_current_host_db_vm)
    IN  IF physical_entries.raised THEN Raise
        ELSE Ret(_generate_main_section_header(config, av)
                 \o <<BlankLine>>
                 \o physical_entries.val
                 \o _generate_main_section_footer(config)
                 \o _generate_virtual_hostname_sections(av, config))

\* ------------------------------------------------------------- validation
SubnetKeys == <<"subnet_cidr_db", "subnet_cidr_storage", "subnet_cidr_client">>

\* the pairs checked for overlap
subnet_pairs == << <<"subnet_cidr_db", "subnet_cidr_storage">>,
                  <<"subnet_cidr_db", "subnet_cidr_client">>,
                  <<"subnet_cidr_storage", "subnet_cidr_client">> >>

\* the format loop of validate_network_config from key number i on
RECURSIVE FormatLoop(_, _, _)
FormatLoop(nc, i, results) ==
    IF i > Len(SubnetKeys) THEN Ret(results)
    ELSE LET subnet_key == SubnetKeys[i]
             subnet_value == Get(nc, subnet_key, None)
         IN  IF Truthy(subnet_value) /\ ~IsNet(subnet_value)
             THEN IF Catches(AddrOrMask, ParseError)
                  THEN FormatLoop(nc, i + 1,
                           [results EXCEPT
                               !.errors = Append(@, [key |-> subnet_key,
                                                     value |-> subnet_value]),
                               !.valid = FALSE])
                  ELSE Raise
             ELSE FormatLoop(nc, i + 1, results)

\* the overlap loop of validate_network_config from pair number i on
RECURSIVE OverlapLoop(_, _, _)
OverlapLoop(nc, i, results) ==
    IF i > Len(subnet_pairs) THEN Ret(results)
    ELSE LET subnet1_key == subnet_pairs[i][1]
             subnet2_key == subnet_pairs[i][2]
             subnet1 == Get(nc, subnet1_key, None)
             subnet2 == Get(nc, subnet2_key, None)
         IN  IF Truthy(subnet1) /\ Truthy(subnet2)
             THEN IF ~IsNet(subnet1) \/ ~IsNet(subnet2)
                  THEN IF Catches(AddrOrMask, ParseError)
                       THEN OverlapLoop(nc, i + 1, results)
                       ELSE Raise
                  ELSE IF Overlaps(subnet1, subnet2)
                  THEN OverlapLoop(nc, i + 1,
                           [results EXCEPT
                               !.warnings = Append(@, [key1 |-> subnet1_key,
                                                       key2 |-> subnet2_key])])
                  ELSE OverlapLoop(nc, i + 1, results)
             ELSE OverlapLoop(nc, i + 1, results)

\* the validation record, or the exception
validate_network_config(nc) ==
    LET formats == FormatLoop(nc, 1, [valid |-> TRUE, warnings |-> <<>>, errors |-> <<>>])
    IN  IF formats.raised THEN Raise
        ELSE OverlapLoop(nc, 1, formats.val)

\* ------------------------------------------------------------ input sets
\* hostnames "a" < "aa" < "b"
HostA == <<10>>
HostAA == <<10, 10>>
HostB == <<11>>
Hostnames == {HostA, HostAA, HostB}

\* the addresses 0, 1 and 2, then "2.0" (octet out of range)
IpBad == <<2, 0>>
IpStrings == {<<0, 0>>, <<0, 1>>, <<1, 0>>, IpBad}

\* well-formed CIDRs, then "0.0/9" (prefix out of range) and " " (blank)
CidrBad == <<0, 0, 9>>
CidrBlank == <<9>>
GoodCidrs == {<<0, 0, 0>>, <<0, 0, 1>>, <<1, 0, 1>>, <<0, 1, 2>>, <<1, 1>>}

\* sequences over S of length at most n
RECURSIVE SeqsUpTo(_, _)
SeqsUpTo(S, n) ==
    IF n = 0 THEN {<<>>}
    ELSE LET shorter == SeqsUpTo(S, n - 1)
         IN  shorter \cup {Append(s, x) : s \in {t \in shorter : Len(t) = n - 1}, x \in S}

\* the fields every input carries
BaseVars == [sap_sid |-> <<12>>, sap_fqdn |-> <<13>>, db_sid |-> <<14>>]

\* a key that may be missing from a dict
Opt(present, k, v) == IF present THEN k :> v ELSE <<>>

HostVars(ipadd, tiers) == [ipadd |-> ipadd, supported_tiers |-> tiers]

\* scale-out landscapes: target host "a" seen from host "b", which is or is
\* not hana-tagged
IsoInputs ==
    { [ansible_play_hosts |-> <<HostB, HostA>>,
       hostvars |-> (HostA :> HostVars(ips, tt)) @@ (HostB :> HostVars(<<<<1, 1>>>>, vt)),
       inventory_hostname |-> HostB,
       database_scale_out |-> so,
       database_high_availability |-> ha,
       subnet_cidr_db |-> db,
       subnet_cidr_storage |-> st,
       subnet_cidr_client |-> cl] @@ BaseVars :
         ips \in SeqsUpTo(IpStrings, MaxIPs),
         tt \in {<<"hana">>, <<"pas">>},
         vt \in {<<"hana">>, <<"app">>}, so \in BOOLEAN, ha \in BOOLEAN,
         db \in {EmptyStr, <<0, 0, 1>>, CidrBad},
         st \in {EmptyStr, <<0, 0, 0>>, CidrBad},
         cl \in {EmptyStr, <<0, 1, 2>>, <<0, 0, 1>>, CidrBad} }

\* play-host lists in any order, with repeats, over hosts with and without
\* host variables, an empty address list and custom hostnames, seen from a
\* hana host, a non-hana host or a host without host variables
OrderInputs ==
    { [ansible_play_hosts |-> hosts,
       hostvars |-> (HostA :> HostVars(<<<<0, 1>>, <<0, 0>>>>, at))
                    @@ (HostB :> (HostVars(bips, <<"pas", "web">>)
                                  @@ Opt(own, "custom_web_virtual_hostname", <<15>>))),
       inventory_hostname |-> view,
       database_scale_out |-> so,
       subnet_cidr_db |-> <<0, 0, 1>>,
       subnet_cidr_client |-> <<0, 1, 2>>]
      @@ Opt(cust, "custom_pas_virtual_hostname", <<16>>) @@ BaseVars :
         hosts \in SeqsUpTo(Hostnames, MaxHosts),
         at \in {<<"hana">>, <<"pas", "hana">>},
         bips \in {<<>>, <<<<1, 0>>>>},
         own \in BOOLEAN, cust \in BOOLEAN,
         view \in Hostnames, so \in BOOLEAN }

\* a load-balancer IP: key missing, None, empty or an address
LbChoices(ip) == {<<"missing">>, <<"set", None>>, <<"set", EmptyStr>>, <<"set", ip>>}

OptLb(k, c) == Opt(c[1] = "set", k, IF c[1] = "set" THEN c[2] ELSE None)

\* high-availability flags and load-balancer IPs
VirtInputs ==
    { [ansible_play_hosts |-> <<HostA>>,
       hostvars |-> (HostA :> HostVars(<<<<0, 1>>>>, <<"hana">>)),
       inventory_hostname |-> HostA,
       scs_high_availability |-> scsha]
      @@ Opt(haKey = "canonical", "database_high_availability", dbha)
      @@ Opt(haKey = "legacy", "db_high_availability", dbha)
      @@ OptLb("scs_lb_ip", scs) @@ OptLb("ers_lb_ip", ers)
      @@ OptLb(dbKey, db)
      @@ Opt(cust, "custom_scs_virtual_hostname", <<17>>) @@ BaseVars :
         scsha \in BOOLEAN, dbha \in BOOLEAN,
         haKey \in {"canonical", "legacy", "missing"},
         scs \in LbChoices(<<1, 0>>), ers \in LbChoices(<<1, 1>>),
         db \in LbChoices(<<0, 1>>),
         dbKey \in {"database_loadbalancer_ip", "db_lb_ip"},
         cust \in BOOLEAN }

\* a subnet CIDR: key missing, None, empty, blank, well-formed or malformed
CidrChoices == {<<"missing">>} \cup
               {<<"set", c>> : c \in {None, EmptyStr, CidrBlank, CidrBad} \cup GoodCidrs}

OptCidr(k, c) == Opt(c[1] = "set", k, IF c[1] = "set" THEN c[2] ELSE None)

\* network configurations
NetInputs ==
    { [ansible_play_hosts |-> <<HostA>>,
       hostvars |-> (HostA :> HostVars(<<<<0, 1>>>>, <<"pas">>)),
       inventory_hostname |-> HostA]
      @@ OptCidr("subnet_cidr_db", db) @@ OptCidr("subnet_cidr_storage", st)
      @@ OptCidr("subnet_cidr_client", cl) @@ BaseVars :
         db \in CidrChoices, st \in CidrChoices, cl \in CidrChoices }

\* the NetworkConfig-shaped record handed to validate_network_config
NetworkConfigOf(av) ==
    [k \in {"subnet_cidr_db", "subnet_cidr_storage", "subnet_cidr_client"}
           \cap DOMAIN av |-> av[k]]

Idle == [status |-> "idle", out |-> <<>>]

\* no command result (None, the empty mapping)
NoResult == <<>>

\* no status read yet
NoStatus == [status |-> "", processes |-> <<>>]

\* neither exit_json nor fail_json called yet
Running == [call |-> "", args |-> [msg |-> ""]]

\* the lifecycle module is not run
ModuleNotRun ==
    /\ params = [operation |-> "", timeout |-> 0, check_mode |-> FALSE]
    /\ sapcontrol_path = ""
    /\ pc = "not run"
    /\ clock = 0
    /\ command_result = NoResult
    /\ status = NoStatus
    /\ commands = <<>>
    /\ outcome = Running

Init ==
    /\ \/ ansible_vars \in IsoInputs
       \/ ansible_vars \in OrderInputs
       \/ ansible_vars \in VirtInputs
       \/ ansible_vars \in NetInputs
    /\ network_config = NetworkConfigOf(ansible_vars)
    /\ gen = Idle
    /\ val = Idle
    /\ ModuleNotRun

\* the outcome of a call: what it returned, or that it raised
Outcome(r) == [status |-> IF r.raised THEN "raised" ELSE "returned", out |-> r.val]

\* the filter sdaf_generate_sap_hosts is applied to the variables
Generate ==
    /\ gen.status = "idle"
    /\ gen' = Outcome(generate_sap_hosts_entries(ansible_vars))
    /\ UNCHANGED <<ansible_vars, network_config, val, lifecycleVars>>

\* the filter sdaf_validate_network_config is applied to the network config
Validate ==
    /\ val.status = "idle"
    /\ val' = Outcome(validate_network_config(network_config))
    /\ UNCHANGED <<ansible_vars, network_config, gen, lifecycleVars>>

Next == Generate \/ Validate

Spec == Init /\ [][Next]_vars

\* ------------------------------------------------- reading inputs and output
Returned == gen.status = "returned"
Out == gen.out
PlayHosts == Get(ansible_vars, "ansible_play_hosts", <<>>)
HostVarsMap == Get(ansible_vars, "hostvars", <<>>)
Range(s) == {s[i] : i \in DOMAIN s}

\* host h carries the "hana" tier
Tagged(h) == /\ h \in DOMAIN HostVarsMap
             /\ InList("hana", Get(HostVarsMap[h], "supported_tiers", <<>>))

ViewerIsHana == Tagged(Get(ansible_vars, "inventory_hostname", EmptyStr))
ScaleOutOn == Get(ansible_vars, "database_scale_out", FALSE)
DbHaOn == Get(ansible_vars, "database_high_availability",
              Get(ansible_vars, "db_high_availability", FALSE))
ScsHaOn == Get(ansible_vars, "scs_high_availability", FALSE)
ClientCidr == Get(ansible_vars, "subnet_cidr_client", EmptyStr)
DbCidr == Get(ansible_vars, "subnet_cidr_db", EmptyStr)
StorageCidr == Get(ansible_vars, "subnet_cidr_storage", EmptyStr)

\* address ip lies in the subnet written c
InSubnet(ip, c) == Truthy(c) /\ IsNet(c) /\ IsIP(ip) /\ InNet(ip, c)

\* the play hosts that have host variables and at least one address
Targets == {h \in Range(PlayHosts) :
               h \in DOMAIN HostVarsMap /\ Get(HostVarsMap[h], "ipadd", <<>>) # <<>>}

Ips(h) == HostVarsMap[h].ipadd

\* isolation filtering is due for target h
Filtering(h) == ScaleOutOn /\ ~ViewerIsHana /\ Tagged(h)

\* index of the END line of the main block in output o
MainEnd(o) == CHOOSE i \in DOMAIN o :
                  o[i].kind = "end" /\ o[i].text = "ANSIBLE MANAGED BLOCK"

\* indices of the entries of the main block of o
MainEntries(o) == {i \in 1..MainEnd(o) : o[i].kind = "entry"}

\* the entry carries one of the four secondary-IP suffixes
HasSuffix(name) == \E sfx \in Suffixes :
                      /\ Len(name) >= Len(sfx)
                      /\ SubSeq(name, Len(name) - Len(sfx) + 1, Len(name)) = sfx

PrimaryIdx(h, o) == {i \in MainEntries(o) : o[i].hostname = h}
SuffixedIdx(h, o) == {i \in MainEntries(o) :
                          \E sfx \in Suffixes : o[i].hostname = h \o sfx}

\* the main-block entries of o that name h, with or without a suffix, in order
EntriesFor(h, o) ==
    LET Mine(l) == /\ l.kind = "entry"
                   /\ \/ l.hostname = h
                      \/ \E sfx \in Suffixes : l.hostname = h \o sfx
    IN  SelectSeq(SubSeq(o, 1, MainEnd(o)), Mine)

\* the suffix the subnets assign to address ip: DB subnet first, then storage
ExpectedSuffix(ip) ==
    IF InSubnet(ip, DbCidr) THEN (IF DbHaOn THEN SuffixHsr ELSE SuffixHana)
    ELSE IF InSubnet(ip, StorageCidr) THEN (IF DbHaOn THEN SuffixInter ELSE SuffixStorage)
    ELSE None

ClientAlternatives == {EmptyStr, <<0, 1, 2>>, <<0, 0, 1>>, CidrBad}

\* the input with another client subnet
WithClient(cl) == ("subnet_cidr_client" :> cl) @@ ansible_vars

\* C1: isolation filtering applies exactly when scale-out is on, the viewer is
\* not hana-tagged and the target is: then every suffixed entry of the target
\* has an IP in the client subnet; otherwise the primary entry shows the
\* target's first IP, every classifiable secondary IP of a scale-out hana
\* target has its entry, and the target's entries do not depend on the client
\* subnet.
IsolationDecision ==
    Returned =>
      \A h \in Targets :
        /\ Filtering(h) =>
             \A i \in SuffixedIdx(h, Out) : InSubnet(Out[i].ip, ClientCidr)
        /\ ~Filtering(h) =>
             /\ PrimaryIdx(h, Out) # {}
             /\ \A i \in PrimaryIdx(h, Out) : Out[i].ip = Ips(h)[1]
             /\ (ScaleOutOn /\ Tagged(h)) =>
                  \A k \in 2..Len(Ips(h)) :
                     ExpectedSuffix(Ips(h)[k]) # None =>
                        \E i \in SuffixedIdx(h, Out) : Out[i].ip = Ips(h)[k]
             /\ \A cl \in ClientAlternatives :
                  LET alt == generate_sap_hosts_entries(WithClient(cl))
                  IN  alt.raised \/ EntriesFor(h, alt.val) = EntriesFor(h, Out)

\* a hana target seen by a non-hana host under scale-out, with a suffixed
\* entry whose IP lies in the client subnet
IsolationWitness ==
    /\ Returned
    /\ HostA \in Targets
    /\ Filtering(HostA)
    /\ \E i \in SuffixedIdx(HostA, Out) : InSubnet(Out[i].ip, ClientCidr)

\* the first address of ips, in list order, that lies in the subnet cl, else
\* the first address of ips
FirstInSubnetOrFirst(ips, cl) ==
    LET hits == {k \in DOMAIN ips : InSubnet(ips[k], cl)}
    IN  IF hits = {} THEN ips[1]
        ELSE ips[CHOOSE k \in hits : \A m \in hits : k <= m]

\* C2: for a non-hana viewer and a hana target under scale-out with a client
\* subnet configured, the target's primary entry carries the first IP of the
\* target's list that lies in the client subnet, else the target's first IP.
PrimaryIpUnderIsolation ==
    Returned =>
      \A h \in Targets :
        (Filtering(h) /\ Truthy(ClientCidr)) =>
           /\ PrimaryIdx(h, Out) # {}
           /\ \A i \in PrimaryIdx(h, Out) :
                 Out[i].ip = FirstInSubnetOrFirst(Ips(h), ClientCidr)

\* the target's first IP is outside the client subnet and a later one inside
PrimaryIpWitness ==
    /\ Returned
    /\ HostA \in Targets
    /\ Filtering(HostA)
    /\ Len(Ips(HostA)) > 1
    /\ ~InSubnet(Ips(HostA)[1], ClientCidr)
    /\ InSubnet(Ips(HostA)[2], ClientCidr)
    /\ \E i \in PrimaryIdx(HostA, Out) : Out[i].ip = Ips(HostA)[2]

\* the secondary addresses of h that reach classification
ShownSecondaries(h) ==
    {Ips(h)[k] : k \in {m \in 2..Len(Ips(h)) :
                           Filtering(h) => InSubnet(Ips(h)[m], ClientCidr)}}

\* C3: under scale-out a secondary IP of a hana host gets '-hsr' (HA) or
\* '-hana' in the DB subnet, else '-inter' (HA) or '-storage' in the storage
\* subnet, the DB subnet being tried first, and no entry in neither subnet.
SuffixClassification ==
    Returned =>
      \A h \in Targets :
        (ScaleOutOn /\ Tagged(h)) =>
           /\ \A i \in SuffixedIdx(h, Out) :
                 /\ Out[i].ip \in ShownSecondaries(h)
                 /\ ExpectedSuffix(Out[i].ip) # None
                 /\ Out[i].hostname = h \o ExpectedSuffix(Out[i].ip)
           /\ \A ip \in ShownSecondaries(h) :
                 ExpectedSuffix(ip) # None =>
                    \E i \in SuffixedIdx(h, Out) : Out[i].ip = ip

\* a secondary IP lying in both the DB and the storage subnet got the DB suffix
SuffixWitness ==
    /\ Returned
    /\ HostA \in Targets
    /\ ScaleOutOn /\ Tagged(HostA)
    /\ \E i \in SuffixedIdx(HostA, Out) :
          /\ InSubnet(Out[i].ip, DbCidr)
          /\ InSubnet(Out[i].ip, StorageCidr)
          /\ Out[i].hostname = HostA \o SuffixHsr

\* C8: with scale-out disabled no entry carries a secondary-IP suffix.
NoSuffixWithoutScaleOut ==
    (Returned /\ ~ScaleOutOn) =>
       \A i \in DOMAIN Out : Out[i].kind = "entry" => ~HasSuffix(Out[i].hostname)

\* scale-out is off and a hana host has a secondary IP inside the DB subnet
NoSuffixWitness ==
    /\ Returned
    /\ ~ScaleOutOn
    /\ HostA \in Targets
    /\ Tagged(HostA)
    /\ Len(Ips(HostA)) > 1
    /\ InSubnet(Ips(HostA)[2], DbCidr)
    /\ InSubnet(Ips(HostA)[2], ClientCidr)
    /\ ~ViewerIsHana

\* C4: a malformed IP or CIDR only makes its own membership check fail;
\* generate_sap_hosts_entries never raises.
GenerateNeverRaises == gen.status # "raised"

NetValue(k) == Get(network_config, k, None)
CidrKeys == {"subnet_cidr_db", "subnet_cidr_storage", "subnet_cidr_client"}

\* the keys whose CIDR is present and does not parse
InvalidKeys == {k \in CidrKeys : Truthy(NetValue(k)) /\ ~IsNet(NetValue(k))}

\* C5: validate_network_config never raises and returns {valid, errors, warnings}.
ValidateNeverRaises ==
    val.status # "idle" =>
       /\ val.status = "returned"
       /\ DOMAIN val.out = {"valid", "errors", "warnings"}

\* C6: validation records exactly one error per present unparsable CIDR,
\* naming its key, whatever the other fields hold; valid is false iff an
\* error was recorded; an unparsable CIDR adds no warning.
ValidateReportsEachInvalidCidr ==
    val.status # "idle" =>
       /\ val.status = "returned"
       /\ \A k \in InvalidKeys :
             Cardinality({i \in DOMAIN val.out.errors : val.out.errors[i].key = k}) = 1
       /\ \A i \in DOMAIN val.out.errors : val.out.errors[i].key \in InvalidKeys
       /\ val.out.valid <=> (val.out.errors = <<>>)
       /\ \A i \in DOMAIN val.out.warnings :
             /\ val.out.warnings[i].key1 \notin InvalidKeys
             /\ val.out.warnings[i].key2 \notin InvalidKeys

\* the hostnames of the primary entries of the main block of o, in output order
PrimaryNames(o) ==
    LET IsPrimary(l) == l.kind = "entry" /\ l.hostname \in Range(PlayHosts)
        picked == SelectSeq(SubSeq(o, 1, MainEnd(o)), IsPrimary)
    IN  [i \in DOMAIN picked |-> picked[i].hostname]

\* the play-host list rearranged by the index permutation f
Rearranged(f) == [i \in DOMAIN PlayHosts |-> PlayHosts[f[i]]]

WithHosts(hosts) == ("ansible_play_hosts" :> hosts) @@ ansible_vars

\* C7: the physical-host entries come out in lexicographic order of hostname,
\* and every rearrangement of the play-host list gives the same result.
HostsInLexicographicOrder ==
    /\ Returned =>
         LET names == PrimaryNames(Out)
         IN  /\ \A i, j \in DOMAIN names : i < j => ~StrLess(names[j], names[i])
             /\ \A h \in Targets :
                   Cardinality({i \in DOMAIN names : names[i] = h})
                     = Cardinality({i \in DOMAIN PlayHosts : PlayHosts[i] = h})
    /\ gen.status # "idle" =>
         \A f \in Permutations(DOMAIN PlayHosts) :
            Outcome(generate_sap_hosts_entries(WithHosts(Rearranged(f)))) = gen

\* hosts given as "b" before "a" are both rendered, "a" first
OrderWitness ==
    /\ Returned
    /\ Len(PlayHosts) >= 2
    /\ PlayHosts[1] = HostB /\ PlayHosts[2] = HostA
    /\ {HostA, HostB} \subseteq Targets
    /\ PrimaryNames(Out)[1] = HostA

\* lines of output o of the given kind and section title
Marks(o, kind, title) == {i \in DOMAIN o : o[i].kind = kind /\ o[i].text = title}

ScsLbIp == Get(ansible_vars, "scs_lb_ip", None)
ErsLbIp == Get(ansible_vars, "ers_lb_ip", None)
DbLbIp == Get(ansible_vars, "database_loadbalancer_ip", Get(ansible_vars, "db_lb_ip", None))

\* the entries strictly between the BEGIN and END line of a section of o
Inside(o, title) ==
    {i \in DOMAIN o : /\ o[i].kind = "entry"
                      /\ \E b \in Marks(o, "begin", title) : b < i
                      /\ \E e \in Marks(o, "end", title) : i < e}

\* C9: the SCS/ERS section appears iff scs_high_availability; its header and
\* footer appear whenever it does; inside, the SCS line appears iff an SCS
\* load-balancer IP is set and the ERS line iff an ERS load-balancer IP is set.
ScsErsSection ==
    Returned =>
      LET begins == Marks(Out, "begin", "ASCS/ERS Entries")
          ends == Marks(Out, "end", "ASCS/ERS Entries")
          inside == Inside(Out, "ASCS/ERS Entries")
          scsLines == {i \in inside : Out[i].hostname = _get_scs_virtual_hostname(
                                          _extract_sap_configuration(ansible_vars))}
          ersLines == {i \in inside : Out[i].hostname = _get_ers_virtual_hostname(
                                          _extract_sap_configuration(ansible_vars))}
      IN  /\ Cardinality(begins) = (IF ScsHaOn THEN 1 ELSE 0)
          /\ Cardinality(ends) = (IF ScsHaOn THEN 1 ELSE 0)
          /\ \A b \in begins : \A e \in ends : MainEnd(Out) < b /\ b < e
          /\ inside = scsLines \cup ersLines
          /\ Cardinality(scsLines) = (IF ScsHaOn /\ Truthy(ScsLbIp) THEN 1 ELSE 0)
          /\ Cardinality(ersLines) = (IF ScsHaOn /\ Truthy(ErsLbIp) THEN 1 ELSE 0)
          /\ \A i \in scsLines : Out[i].ip = ScsLbIp
          /\ \A i \in ersLines : Out[i].ip = ErsLbIp

\* SCS HA is on, no load-balancer IP is set, header and footer are there
ScsErsWitness ==
    /\ Returned
    /\ ScsHaOn
    /\ ~Truthy(ScsLbIp) /\ ~Truthy(ErsLbIp)
    /\ Marks(Out, "begin", "ASCS/ERS Entries") # {}
    /\ Marks(Out, "end", "ASCS/ERS Entries") # {}

\* the lines of the DB section of o, in order
DbSectionOf(o) ==
    LET b == Marks(o, "begin", "DB Entries")
        e == Marks(o, "end", "DB Entries")
    IN  IF b = {} \/ e = {} THEN <<>>
        ELSE SubSeq(o, CHOOSE i \in b : TRUE, CHOOSE i \in e : TRUE)

\* C10: the DB section appears iff database HA is on and a DB load-balancer IP
\* is set; HA without the IP gives no header, no footer and no error; the SCS
\* flag does not change the section.
DbSection ==
    Returned =>
      LET begins == Marks(Out, "begin", "DB Entries")
          ends == Marks(Out, "end", "DB Entries")
          inside == Inside(Out, "DB Entries")
          due == DbHaOn /\ Truthy(DbLbIp)
      IN  /\ Cardinality(begins) = (IF due THEN 1 ELSE 0)
          /\ Cardinality(ends) = (IF due THEN 1 ELSE 0)
          /\ Cardinality(inside) = (IF due THEN 1 ELSE 0)
          /\ \A i \in inside : Out[i].ip = DbLbIp
          /\ \A flag \in BOOLEAN :
                LET alt == generate_sap_hosts_entries(
                               ("scs_high_availability" :> flag) @@ ansible_vars)
                IN  ~alt.raised /\ DbSectionOf(alt.val) = DbSectionOf(Out)

\* database HA is on, the load-balancer IP is not set, there is no DB section
DbSectionWitness ==
    /\ Returned
    /\ DbHaOn
    /\ ~Truthy(DbLbIp)
    /\ ScsHaOn
    /\ Marks(Out, "begin", "DB Entries") = {}
    /\ Marks(Out, "end", "DB Entries") = {}

\* ------------------------------------------------------------ C11 .. C14
\* C11: every entry line of every returned output, physical, custom-hostname,
\* suffixed or virtual, carries an IP field that parses as an IP address.
EveryEntryIpValid ==
    Returned => \A i \in DOMAIN Out : Out[i].kind = "entry" => IsIP(Out[i].ip)

\* the BEGIN and END lines of output o, in order
MarkerLines(o) ==
    LET IsMarker(l) == l.kind \in {"begin", "end"}
    IN  SelectSeq(o, IsMarker)

\* C12: in every returned output the BEGIN and END lines alternate, each END
\* carries the label of the BEGIN before it, and the main block's BEGIN/END
\* pair is there exactly once and comes first, with or without virtual IPs.
MarkersPaired ==
    Returned =>
      LET marks == MarkerLines(Out)
      IN  /\ Len(marks) % 2 = 0
          /\ \A i \in DOMAIN marks :
                IF i % 2 = 1 THEN marks[i].kind = "begin"
                ELSE /\ marks[i].kind = "end"
                     /\ marks[i].text = marks[i - 1].text
                     /\ marks[i].arg = marks[i - 1].arg
          /\ Len(marks) >= 2
          /\ marks[1].text = "ANSIBLE MANAGED BLOCK"
          /\ Cardinality(Marks(Out, "begin", "ANSIBLE MANAGED BLOCK")) = 1
          /\ Cardinality(Marks(Out, "end", "ANSIBLE MANAGED BLOCK")) = 1

\* the main block, the SCS/ERS section and the DB section are all emitted
MarkersWitness ==
    /\ Returned
    /\ Len(MarkerLines(Out)) = 6
    /\ ScsHaOn /\ DbHaOn /\ Truthy(DbLbIp)

\* the play hosts without host variables or with an empty address list
Skipped == Range(PlayHosts) \ Targets

\* the input with host h taken off the play-host list
WithoutHost(h) ==
    LET Other(x) == x # h
    IN  WithHosts(SelectSeq(PlayHosts, Other))

\* output o without the header line that counts the play hosts
ExceptHostCount(o) ==
    LET Kept(l) == ~(l.kind = "comment" /\ l.text = "Hosts")
    IN  SelectSeq(o, Kept)

\* C13: a play host without host variables or with an empty address list adds
\* no line and no error: the call ends as it does without that host, with the
\* same lines (the host count of the header aside), none of them naming the
\* host, and every other play host still has its primary entry.
SkippedHostsContributeNothing ==
    gen.status # "idle" =>
      /\ \A h \in Skipped :
            LET alt == Outcome(generate_sap_hosts_entries(WithoutHost(h)))
            IN  /\ alt.status = gen.status
                /\ ExceptHostCount(alt.out) = ExceptHostCount(Out)
                /\ Returned => EntriesFor(h, Out) = <<>>
      /\ Returned => \A t \in Targets : PrimaryIdx(t, Out) # {}

\* "aa" has no host variables, "b" has no address, "a" is rendered
SkippedWitness ==
    /\ Returned
    /\ {HostA, HostAA, HostB} \subseteq Range(PlayHosts)
    /\ HostAA \notin DOMAIN HostVarsMap
    /\ HostB \in DOMAIN HostVarsMap /\ Ips(HostB) = <<>>
    /\ Skipped = {HostAA, HostB}
    /\ PrimaryIdx(HostA, Out) # {}

\* the pairs of present, parsable subnets whose ranges overlap
OverlappingPairs ==
    {i \in DOMAIN subnet_pairs :
        LET s1 == NetValue(subnet_pairs[i][1])
            s2 == NetValue(subnet_pairs[i][2])
        IN  /\ Truthy(s1) /\ IsNet(s1)
            /\ Truthy(s2) /\ IsNet(s2)
            /\ \E a \in 0..3 :
                  /\ NetBase(s1) <= a /\ a < NetBase(s1) + BlockSize(s1)
                  /\ NetBase(s2) <= a /\ a < NetBase(s2) + BlockSize(s2)}

\* C14: a returned validation holds exactly one warning per overlapping pair
\* of present, parsable subnets, naming the pair, and a warning neither clears
\* valid nor adds an error.
OneWarningPerOverlap ==
    val.status = "returned" =>
      /\ \A i \in OverlappingPairs :
            Cardinality({w \in DOMAIN val.out.warnings :
                            /\ val.out.warnings[w].key1 = subnet_pairs[i][1]
                            /\ val.out.warnings[w].key2 = subnet_pairs[i][2]}) = 1
      /\ Len(val.out.warnings) = Cardinality(OverlappingPairs)
      /\ val.out.warnings # <<>> => val.out.valid /\ val.out.errors = <<>>

\* the DB subnet contains the storage subnet: one warning, valid, no error
OverlapWitness ==
    /\ val.status = "returned"
    /\ NetValue("subnet_cidr_db") = <<0, 0, 0>>
    /\ NetValue("subnet_cidr_storage") = <<1, 0, 1>>
    /\ ~Truthy(NetValue("subnet_cidr_client"))
    /\ Len(val.out.warnings) = 1
    /\ val.out.valid
    /\ val.out.errors = <<>>

\* a comment line with this text is in the output
HasComment(text) ==
    \E i \in DOMAIN Out : Out[i].kind = "comment" /\ Out[i].text = text

\* C25: the header tells the filtering applied for the viewer: with
\* scale-out on and a viewer that is not hana-tagged (the condition under
\* which the IPs of hana targets are filtered) it has the line 'Network
\* isolation: Active'; with scale-out on and a hana-tagged viewer it has the
\* line 'Network isolation: Disabled'; with scale-out off it has neither.
HeaderTellsFiltering ==
    Returned =>
      /\ ScaleOutOn /\ ~ViewerIsHana
         => /\ HasComment("Network isolation: Active")
            /\ ~HasComment("Network isolation: Disabled")
      /\ ScaleOutOn /\ ViewerIsHana
         => /\ HasComment("Network isolation: Disabled")
            /\ ~HasComment("Network isolation: Active")
      /\ ~ScaleOutOn
         => /\ ~HasComment("Network isolation: Active")
            /\ ~HasComment("Network isolation: Disabled")

\* the input with another value under key k
With(k, v) == (k :> v) @@ ansible_vars

\* the lines of output o after the END line of the main block
AfterMain(o) == SubSeq(o, MainEnd(o) + 1, Len(o))

\* inputs with the same deployment configuration and another viewing host,
\* other host records, other subnets or another scale-out flag
OtherLandscapes ==
    {With("inventory_hostname", v) : v \in Hostnames}
        \cup {With("database_scale_out", b) : b \in BOOLEAN}
        \cup {("subnet_cidr_db" :> c) @@ ("subnet_cidr_client" :> c) @@ ansible_vars :
                  c \in {EmptyStr, <<0, 0, 1>>}}
        \cup {With("hostvars", <<>>),
              With("hostvars", HostA :> HostVars(<<<<1, 0>>>>, <<"pas">>)),
              ("inventory_hostname" :> HostB) @@ ("database_scale_out" :> TRUE)
                  @@ ("subnet_cidr_client" :> <<0, 1, 2>>) @@ ansible_vars}

\* C26: the virtual hostname sections come after the END line of the main
\* block, the SCS/ERS section before the DB section, and are the same
\* lines for every input with the same deployment configuration, whatever
\* the viewing host, the host records, the subnets and the scale-out flag.
VirtualSectionsNotIsolated ==
    Returned =>
      /\ \A i \in DOMAIN Out :
            Out[i].kind \in {"begin", "end"} /\ Out[i].text # "ANSIBLE MANAGED BLOCK"
            => i > MainEnd(Out)
      /\ \A i, j \in DOMAIN Out :
            Out[i].text = "ASCS/ERS Entries" /\ Out[j].text = "DB Entries"
            => i < j
      /\ \A av \in OtherLandscapes :
            LET other == generate_sap_hosts_entries(av)
            IN  ~other.raised => AfterMain(other.val) = AfterMain(Out)

\* both sections are there and another viewer gets another main block
VirtualSectionsWitness ==
    /\ Returned
    /\ \E i, j \in DOMAIN Out :
          Out[i].text = "ASCS/ERS Entries" /\ Out[j].text = "DB Entries"
    /\ \E av \in OtherLandscapes :
          LET other == generate_sap_hosts_entries(av)
          IN  ~other.raised /\ other.val # Out

\* the secondary addresses of target h
SecondaryIps(h) == {Ips(h)[k] : k \in 2..Len(Ips(h))}

\* no address lies in both subnets
Disjoint(c1, c2) ==
    ~(Truthy(c1) /\ Truthy(c2) /\ IsNet(c1) /\ IsNet(c2) /\ Overlaps(c1, c2))

\* C29: under isolation every suffixed entry of a hana target shows a
\* secondary address that lies in the client subnet and in the DB or the
\* storage subnet.  So without a client subnet, and with a client subnet
\* that shares no address with the DB and storage subnets, the target has
\* no suffixed entry.
SuffixNeedsClientSubnet ==
    Returned =>
      \A h \in Targets :
        Filtering(h) =>
          /\ \A i \in SuffixedIdx(h, Out) :
                /\ Out[i].ip \in SecondaryIps(h)
                /\ InSubnet(Out[i].ip, ClientCidr)
                /\ InSubnet(Out[i].ip, DbCidr) \/ InSubnet(Out[i].ip, StorageCidr)
          /\ \/ ~Truthy(ClientCidr)
             \/ Disjoint(ClientCidr, DbCidr) /\ Disjoint(ClientCidr, StorageCidr)
             => SuffixedIdx(h, Out) = {}

\* a non-hana viewer, no client subnet, and a hana target with a secondary
\* address in the DB subnet
SuffixNeedsClientWitness ==
    /\ Returned
    /\ ~Truthy(ClientCidr)
    /\ \E h \in Targets :
          /\ Filtering(h)
          /\ \E ip \in SecondaryIps(h) : InSubnet(ip, DbCidr)
          /\ SuffixedIdx(h, Out) = {}
          /\ PrimaryIdx(h, Out) # {}

\* the viewing hosts: the play hosts and a host that is not in hostvars
Viewers == Hostnames \cup {<<18>>}

\* C30: the output depends on the viewing host only through its being
\* hana-tagged: the call for another viewing host that is hana-tagged as
\* well, or not hana-tagged either (a host without host variables is not),
\* returns the same lines.
ViewerOnlyByTag ==
    Returned =>
      \A v \in Viewers :
        LET other == generate_sap_hosts_entries(With("inventory_hostname", v))
        IN  IsCurrentHostDbVm(With("inventory_hostname", v)) = ViewerIsHana
            => ~other.raised /\ other.val = Out

\* scale-out, a viewer with host variables that is not hana-tagged, and a
\* hana target
ViewerOnlyByTagWitness ==
    /\ Returned
    /\ ScaleOutOn
    /\ ~ViewerIsHana
    /\ Get(ansible_vars, "inventory_hostname", EmptyStr) \in DOMAIN HostVarsMap
    /\ \E h \in Targets : Tagged(h)
    /\ \E v \in Viewers : v \notin DOMAIN HostVarsMap

\* ===================================================== hana_lifecycle.py
\* ------------------------------------------------------------------ bounds
MaxLines == 2
MaxTimeout == 20
MaxLatency == 1

\* seconds slept before each status poll of the two wait loops
StartPollInterval == 10
StopPollInterval == 5

\* ------------------------------------------------------- Python primitives
Comma == <<6>>
Newline == <<7>>
Colon == <<8>>

\* "sub in s"
Contains(s, sub) ==
    \E i \in 1..(Len(s) - Len(sub) + 1) : SubSeq(s, i, i + Len(sub) - 1) = sub

\* s.startswith(prefix)
StartsWith(s, prefix) == Len(s) >= Len(prefix) /\ SubSeq(s, 1, Len(prefix)) = prefix

\* position of the first separator character in s, 0 when there is none
Find(s, sep) ==
    IF \E i \in DOMAIN s : s[i] = sep[1]
    THEN CHOOSE i \in DOMAIN s : s[i] = sep[1] /\ \A j \in 1..(i - 1) : s[j] # sep[1]
    ELSE 0

\* s.split(sep)
RECURSIVE Split(_, _)
Split(s, sep) ==
    LET i == Find(s, sep)
    IN  IF i = 0 THEN <<s>>
        ELSE <<SubSeq(s, 1, i - 1)>> \o Split(SubSeq(s, i + 1, Len(s)), sep)

\* s.split(sep, 1)
SplitOnce(s, sep) ==
    LET i == Find(s, sep)
    IN  IF i = 0 THEN <<s>>
        ELSE <<SubSeq(s, 1, i - 1), SubSeq(s, i + 1, Len(s))>>

\* [part.strip() for part in parts]
StripAll(parts) == [k \in DOMAIN parts |-> Strip(parts[k])]

\* sep.join(parts)
RECURSIVE Join(_, _)
Join(parts, sep) ==
    IF parts = <<>> THEN <<>>
    ELSE IF Len(parts) = 1 THEN parts[1]
    ELSE parts[1] \o sep \o Join(Tail(parts), sep)

\* the words "hdb", "name, description, dispstatus" and the display statuses
Hdb == <<17, 13, 11>>
HeaderText == <<60, 6, 9, 61, 6, 9, 62>>
Green == <<40>>
Yellow == <<41>>
Red == <<42>>

\* a call that returned v, and a call that ended the run in fail_json(**payload)
Done(v) == [failed |-> FALSE, val |-> v]
Failed(payload) == [failed |-> TRUE, val |-> payload]

\* ------------------------------------------------------ HANALifecycleManager
\* the alternative locations of sapcontrol, in the order tried
alternative_paths == << "/usr/sap/{}/SYS/exe/uc/linuxx86_64/sapcontrol",
                        "/usr/sap/{}/SYS/exe/run/sapcontrol",
                        "/usr/sap/hostctrl/exe/sapcontrol" >>

\* the path kept by the constructor, given the files that exist
_validate_sapcontrol_path(path, files) ==
    IF path \in files THEN Done(path)
    ELSE IF \E i \in DOMAIN alternative_paths : alternative_paths[i] \in files
    THEN Done(alternative_paths[
             CHOOSE i \in DOMAIN alternative_paths :
                /\ alternative_paths[i] \in files
                /\ \A j \in 1..(i - 1) : alternative_paths[j] \notin files])
    ELSE Failed([msg |-> "sapcontrol executable not found. Tried: {}, {}"])

\* the dictionary made of a completed command
CommandResult(run) == [rc |-> run.rc, stdout |-> run.stdout]

\* a variant that reports a command's timeout without its command line
_run_sapcontrol_command_without_cmd(path, instance_number, command_args, run) ==
    IF run.kind = "TimeoutExpired"
    THEN Failed([msg |-> "sapcontrol command timed out after {} seconds"])
    ELSE IF run.kind = "Exception"
    THEN Failed([msg |-> "Failed to execute sapcontrol command: {}",
                 cmd |-> <<path, "-nr", instance_number>> \o command_args])
    ELSE Done(CommandResult(run))

\* one sapcontrol command: its result, or the failure that ends the run
_run_sapcontrol_command(path, instance_number, command_args, run) ==
    LET cmd == <<path, "-nr", instance_number>> \o command_args
    IN  IF run.kind = "TimeoutExpired"
        THEN Failed([msg |-> "sapcontrol command timed out after {} seconds",
                     cmd |-> cmd])
        ELSE IF run.kind = "Exception"
        THEN Failed([msg |-> "Failed to execute sapcontrol command: {}", cmd |-> cmd])
        ELSE Done(CommandResult(run))

\* the loop of get_instance_status over the output lines from line i on
RECURSIVE ProcessLoop(_, _, _)
ProcessLoop(lines, i, acc) ==
    IF i > Len(lines) THEN acc
    ELSE LET line == lines[i]
             parts == StripAll(Split(line, Comma))
         IN  IF Contains(line, HeaderText) \/ Strip(line) = <<>>
             THEN ProcessLoop(lines, i + 1, acc)
             ELSE IF /\ Contains(line, Comma)
                     /\ Contains(Lower(line), Hdb)
                     /\ Len(parts) >= 7
                     /\ parts[3] \in {Green, Yellow, Red}
             THEN ProcessLoop(lines, i + 1,
                      [processes |-> Append(acc.processes,
                                            [name |-> parts[1], status |-> parts[3]]),
                       overall_status |->
                           IF parts[3] = Red THEN "RED"
                           ELSE IF parts[3] = Yellow /\ acc.overall_status # "RED"
                           THEN "YELLOW"
                           ELSE acc.overall_status])
             ELSE ProcessLoop(lines, i + 1, acc)

\* variant: the overall status is the status of the last process parsed
StatusOfLastProcess(result) ==
    IF "rc" \notin DOMAIN result \/ result.rc \notin {0, 3, 4}
    THEN [status |-> "UNKNOWN", processes |-> <<>>]
    ELSE IF result.rc = 4 THEN [status |-> "STOPPED", processes |-> <<>>]
    ELSE LET parsed == ProcessLoop(Split(result.stdout, Newline), 1,
                                   [overall_status |-> "GREEN", processes |-> <<>>])
             last == parsed.processes[Len(parsed.processes)].status
         IN  [status |-> IF parsed.processes = <<>> THEN "STOPPED"
                         ELSE IF last = Red THEN "RED"
                         ELSE IF last = Yellow THEN "YELLOW" ELSE "GREEN",
              processes |-> parsed.processes]

\* variant: the output is parsed whatever the return code
StatusOfAnyReturnCode(result) ==
    IF "rc" \notin DOMAIN result
    THEN [status |-> "UNKNOWN", processes |-> <<>>]
    ELSE LET parsed == ProcessLoop(Split(result.stdout, Newline), 1,
                                   [overall_status |-> "GREEN", processes |-> <<>>])
         IN  [status |-> IF parsed.processes = <<>> THEN "STOPPED"
                         ELSE parsed.overall_status,
              processes |-> parsed.processes]

\* what get_instance_status makes of the command result (None is the empty
\* mapping)
StatusOf(result) ==
    IF "rc" \notin DOMAIN result
    THEN [status |-> "UNKNOWN", processes |-> <<>>]
    ELSE IF result.rc \notin {0, 3, 4}
    THEN [status |-> "UNKNOWN", processes |-> <<>>]
    ELSE IF result.rc = 4
    THEN [status |-> "STOPPED", processes |-> <<>>]
    ELSE LET parsed == ProcessLoop(Split(result.stdout, Newline), 1,
                                   [overall_status |-> "GREEN", processes |-> <<>>])
         IN  [status |-> IF parsed.processes = <<>> THEN "STOPPED"
                         ELSE parsed.overall_status,
              processes |-> parsed.processes]

\* the status record, or the failure of the GetProcessList command
get_instance_status(path, instance_number, run) ==
    LET result == _run_sapcontrol_command(path, instance_number,
                                          <<"-function", "GetProcessList">>, run)
    IN  IF result.failed THEN result ELSE Done(StatusOf(result.val))

\* the words of the hdbnsutil -sr_state output
ModeKey == <<70, 8>>
SiteIdKey == <<71, 9, 72, 8>>
SiteNameKey == <<71, 9, 73, 8>>
OnlineKey == <<74, 8>>
ActivePrimarySiteKey == <<75, 9, 80, 9, 71, 8>>
PrimaryMastersKey == <<80, 9, 76, 8>>
Primary == <<80>>
Sync == <<81>>
Syncmem == <<81, 82>>
Async == <<10, 81>>
NoneMode == <<84>>
TrueWord == <<19, 18>>
Unknown == <<45>>
Disabled == <<46>>

\* int(s) succeeds: s is made of digits
IsInt(s) == s # <<>> /\ \A i \in DOMAIN s : s[i] \in 0..1

\* int(s)
RECURSIVE IntOf(_)
IntOf(s) == IF s = <<>> THEN 0 ELSE 10 * IntOf(SubSeq(s, 1, Len(s) - 1)) + s[Len(s)]

\* replication_info before any line is read
replication_info == [mode |-> Unknown, site_id |-> None, site_name |-> Unknown,
                     online |-> FALSE, active_primary_site |-> None,
                     primary_masters |-> None, is_primary |-> FALSE,
                     is_secondary |-> FALSE]

\* a variant in which a mode line sets the flag of its role and leaves the
\* other flag as it is
ReplicationLineOneFlag(info, raw) ==
    LET line == Strip(raw)
        value == Strip(SplitOnce(line, Colon)[2])
    IN  IF StartsWith(line, ModeKey)
        THEN IF value = Primary
             THEN [info EXCEPT !.mode = value, !.is_primary = TRUE]
             ELSE IF value \in {Sync, Syncmem, Async}
             THEN [info EXCEPT !.mode = value, !.is_secondary = TRUE]
             ELSE IF value = NoneMode
             THEN [info EXCEPT !.mode = Disabled, !.is_primary = FALSE,
                               !.is_secondary = FALSE]
             ELSE [info EXCEPT !.mode = value]
        ELSE IF StartsWith(line, SiteIdKey)
        THEN IF IsInt(value) THEN [info EXCEPT !.site_id = IntOf(value)] ELSE info
        ELSE IF StartsWith(line, SiteNameKey)
        THEN [info EXCEPT !.site_name = value]
        ELSE IF StartsWith(line, OnlineKey)
        THEN [info EXCEPT !.online = (Lower(value) = TrueWord)]
        ELSE IF StartsWith(line, ActivePrimarySiteKey)
        THEN IF IsInt(value) THEN [info EXCEPT !.active_primary_site = IntOf(value)]
             ELSE info
        ELSE IF StartsWith(line, PrimaryMastersKey)
        THEN [info EXCEPT !.primary_masters = value]
        ELSE info

\* the effect of one output line on replication_info
ReplicationLine(info, raw) ==
    LET line == Strip(raw)
        value == Strip(SplitOnce(line, Colon)[2])
    IN  IF StartsWith(line, ModeKey)
        THEN IF value = Primary
             THEN [info EXCEPT !.mode = value, !.is_primary = TRUE, !.is_secondary = FALSE]
             ELSE IF value \in {Sync, Syncmem, Async}
             THEN [info EXCEPT !.mode = value, !.is_primary = FALSE, !.is_secondary = TRUE]
             ELSE IF value = NoneMode
             THEN [info EXCEPT !.mode = Disabled, !.is_primary = FALSE,
                               !.is_secondary = FALSE]
             ELSE [info EXCEPT !.mode = value]
        ELSE IF StartsWith(line, SiteIdKey)
        THEN IF IsInt(value) THEN [info EXCEPT !.site_id = IntOf(value)] ELSE info
        ELSE IF StartsWith(line, SiteNameKey)
        THEN [info EXCEPT !.site_name = value]
        ELSE IF StartsWith(line, OnlineKey)
        THEN [info EXCEPT !.online = (Lower(value) = TrueWord)]
        ELSE IF StartsWith(line, ActivePrimarySiteKey)
        THEN IF IsInt(value) THEN [info EXCEPT !.active_primary_site = IntOf(value)]
             ELSE info
        ELSE IF StartsWith(line, PrimaryMastersKey)
        THEN [info EXCEPT !.primary_masters = value]
        ELSE info

\* the loop of check_replication_status over the output lines from line i on
RECURSIVE ReplicationLoop(_, _, _)
ReplicationLoop(lines, i, info) ==
    IF i > Len(lines) THEN info
    ELSE ReplicationLoop(lines, i + 1, ReplicationLine(info, lines[i]))

\* replication_info as parsed from the output of hdbnsutil
ReplicationInfo(stdout) ==
    IF stdout # <<>> THEN ReplicationLoop(Split(stdout, Newline), 1, replication_info)
    ELSE replication_info

\* the hdbnsutil command: its output, or the failure that ends the run
RunHdbnsutil(run) ==
    LET cmd == <<"/usr/sap/{}/HDB{}/exe/hdbnsutil", "-sr_state">>
    IN  IF run.kind = "TimeoutExpired"
        THEN Failed([msg |-> "hdbnsutil command timed out after {} seconds", cmd |-> cmd])
        ELSE IF run.kind = "Exception"
        THEN Failed([msg |-> "Failed to execute hdbnsutil command: {}", cmd |-> cmd])
        ELSE Done(CommandResult(run))

\* ------------------------------------------------------------ input sets
\* what the environment makes of one command
Run(kind, rc, stdout) == [kind |-> kind, rc |-> rc, stdout |-> stdout]
CommandFailures == {Run("TimeoutExpired", 0, <<>>), Run("Exception", 0, <<>>)}
ReturnCodes == {0, 1, 3, 4}

\* one line of the process list: seven fields separated by ", "
ProcessLine(name, description, dispstatus) ==
    Join(<<name, description, dispstatus, <<63>>, <<64>>, <<65>>, <<66>>>>, <<6, 9>>)

HeaderLine == Join(<<<<60>>, <<61>>, <<62>>, <<63>>, <<64>>, <<65>>, <<66>>>>, <<6, 9>>)
DaemonGreen == ProcessLine(Hdb \o <<50>>, <<67>>, Green)
IndexYellow == ProcessLine(Hdb \o <<51>>, <<67>>, Yellow)
NameRed == ProcessLine(Hdb \o <<52>>, <<67>>, Red)

\* the header, a blank line, three hdb processes, a process that is no hdb
\* process, one whose description alone says "HDB", one with a status that is
\* no display status, and a line with too few fields
ProcessLines ==
    { HeaderLine, <<9, 9>>, DaemonGreen, IndexYellow, NameRed,
      ProcessLine(<<53>>, <<67>>, Green),
      ProcessLine(<<54>>, <<117, 113, 111>>, Yellow),
      ProcessLine(Hdb \o <<55>>, <<67>>, <<43>>),
      Join(<<Hdb \o <<56>>, <<67>>, Red>>, <<6, 9>>) }

\* the outputs of GetProcessList read by the status operation
ProcessLists == {Join(lines, Newline) : lines \in SeqsUpTo(ProcessLines, MaxLines)}

\* the outputs of GetProcessList read by the other operations
PolledLists == { <<>>, Join(<<HeaderLine, DaemonGreen>>, Newline),
                 Join(<<DaemonGreen, IndexYellow>>, Newline), NameRed }

StatusRuns ==
    {Run("completed", rc, out) : rc \in ReturnCodes, out \in ProcessLists}
        \cup CommandFailures
PollRuns ==
    {Run("completed", rc, out) : rc \in ReturnCodes, out \in PolledLists}
        \cup CommandFailures
CommandRuns == {Run("completed", rc, <<>>) : rc \in ReturnCodes} \cup CommandFailures

\* lines of the hdbnsutil output
ReplicationLines ==
    { ModeKey \o <<9>> \o m : m \in {Primary, Sync, Syncmem, Async, NoneMode, <<85>>} }
      \cup { SiteIdKey \o <<9, 1>>, SiteIdKey \o <<9, 86>>, SiteNameKey \o <<9, 87>>,
             OnlineKey \o <<9, 119, 118>>, OnlineKey \o <<9, 88>>,
             <<9>> \o ActivePrimarySiteKey \o <<9, 1, 0>>, PrimaryMastersKey \o <<9, 89>> }

HdbnsutilRuns ==
    {Run("completed", 0, Join(lines, Newline)) :
        lines \in SeqsUpTo(ReplicationLines, MaxLines)} \cup CommandFailures

Operations == {"status", "start", "stop", "check_replication"}
Timeouts == {0, 5, 10, MaxTimeout}

Params(operation, timeout, check_mode) ==
    [sid |-> "HDB", instance_number |-> "00", operation |-> operation,
     timeout |-> timeout, sapcontrol_path |-> "/usr/sap/hostctrl/exe/sapcontrol",
     check_mode |-> check_mode]

\* ----------------------------------------------------------------- actions
\* the filters are not applied
FiltersNotApplied ==
    /\ ansible_vars = <<>>
    /\ network_config = <<>>
    /\ gen = Idle
    /\ val = Idle

\* the module is invoked with its parameters
InitLifecycle ==
    /\ FiltersNotApplied
    /\ params \in {Params(op, t, cm) : op \in Operations, t \in Timeouts, cm \in BOOLEAN}
    /\ sapcontrol_path = params.sapcontrol_path
    /\ pc = "__init__"
    /\ clock = 0
    /\ command_result = NoResult
    /\ status = NoStatus
    /\ commands = <<>>
    /\ outcome = Running

\* module.exit_json(**result) and module.fail_json(**payload) end the run
exit_json(kwargs) ==
    /\ outcome' = [call |-> "exit_json", args |-> kwargs]
    /\ pc' = "exited"

fail_json(kwargs) ==
    /\ outcome' = [call |-> "fail_json", args |-> kwargs]
    /\ pc' = "exited"

\* a command that did not complete leaves no result
NoCommandResult == command_result' = NoResult

\* HANALifecycleManager(module): the constructor looks for sapcontrol
Construct ==
    /\ pc = "__init__"
    /\ \E files \in SUBSET Range(alternative_paths) :
          LET found == _validate_sapcontrol_path(params.sapcontrol_path, files)
          IN  IF found.failed
              THEN fail_json(found.val) /\ UNCHANGED sapcontrol_path
              ELSE sapcontrol_path' = found.val /\ pc' = "main" /\ UNCHANGED outcome
    /\ UNCHANGED <<params, clock, command_result, status, commands, filterVars>>

\* main, operation "status"
StatusOperation ==
    /\ pc = "main"
    /\ params.operation = "status"
    /\ \E run \in StatusRuns :
          LET read == get_instance_status(sapcontrol_path, params.instance_number, run)
          IN  /\ commands' = Append(commands, "GetProcessList")
              /\ IF read.failed
                 THEN fail_json(read.val) /\ NoCommandResult /\ UNCHANGED status
                 ELSE /\ command_result' = CommandResult(run)
                      /\ status' = read.val
                      /\ exit_json([status |-> read.val.status,
                                    processes |-> read.val.processes,
                                    changed |-> FALSE,
                                    msg |-> "HANA instance status: {}"])
    /\ UNCHANGED <<params, sapcontrol_path, clock, filterVars>>

\* main, operations "start" and "stop" in check mode
CheckModeOperation ==
    /\ pc = "main"
    /\ params.operation \in {"start", "stop"}
    /\ params.check_mode
    /\ \E run \in PollRuns :
          LET current_status ==
                  get_instance_status(sapcontrol_path, params.instance_number, run)
              target == IF params.operation = "start" THEN "GREEN" ELSE "STOPPED"
              would == IF params.operation = "start" THEN "Would start HANA instance"
                       ELSE "Would stop HANA instance"
              already == IF params.operation = "start"
                         THEN "HANA instance already running"
                         ELSE "HANA instance already stopped"
          IN  /\ commands' = Append(commands, "GetProcessList")
              /\ IF current_status.failed
                 THEN fail_json(current_status.val) /\ NoCommandResult /\ UNCHANGED status
                 ELSE /\ command_result' = CommandResult(run)
                      /\ status' = current_status.val
                      /\ exit_json([changed |-> current_status.val.status # target,
                                    msg |-> IF current_status.val.status # target
                                            THEN would ELSE already,
                                    status |-> current_status.val.status])
    /\ UNCHANGED <<params, sapcontrol_path, clock, filterVars>>

\* a variant of the status check that is also taken in check mode
start_instance_in_check_mode ==
    /\ pc = "main"
    /\ params.operation = "start"
    /\ \E run \in PollRuns :
          LET current_status ==
                  get_instance_status(sapcontrol_path, params.instance_number, run)
          IN  /\ commands' = Append(commands, "GetProcessList")
              /\ IF current_status.failed
                 THEN fail_json(current_status.val) /\ NoCommandResult /\ UNCHANGED status
                 ELSE /\ command_result' = CommandResult(run)
                      /\ status' = current_status.val
                      /\ IF current_status.val.status = "GREEN"
                         THEN exit_json([changed |-> FALSE,
                                         msg |-> "HANA instance is already running",
                                         status |-> "GREEN",
                                         processes |-> current_status.val.processes])
                         ELSE pc' = "start: Start" /\ UNCHANGED outcome
    /\ UNCHANGED <<params, sapcontrol_path, clock, filterVars>>

\* a variant of the status check that starts the instance whatever it reads
start_instance_unconditional ==
    /\ pc = "main"
    /\ params.operation = "start"
    /\ ~params.check_mode
    /\ \E run \in PollRuns :
          LET current_status ==
                  get_instance_status(sapcontrol_path, params.instance_number, run)
          IN  /\ commands' = Append(commands, "GetProcessList")
              /\ IF current_status.failed
                 THEN fail_json(current_status.val) /\ NoCommandResult /\ UNCHANGED status
                 ELSE /\ command_result' = CommandResult(run)
                      /\ status' = current_status.val
                      /\ pc' = "start: Start"
                      /\ UNCHANGED outcome
    /\ UNCHANGED <<params, sapcontrol_path, clock, filterVars>>

\* start_instance: the status check before the instance is started
start_instance ==
    /\ pc = "main"
    /\ params.operation = "start"
    /\ ~params.check_mode
    /\ \E run \in PollRuns :
          LET current_status ==
                  get_instance_status(sapcontrol_path, params.instance_number, run)
          IN  /\ commands' = Append(commands, "GetProcessList")
              /\ IF current_status.failed
                 THEN fail_json(current_status.val) /\ NoCommandResult /\ UNCHANGED status
                 ELSE /\ command_result' = CommandResult(run)
                      /\ status' = current_status.val
                      /\ IF current_status.val.status = "GREEN"
                         THEN exit_json([changed |-> FALSE,
                                         msg |-> "HANA instance is already running",
                                         status |-> "GREEN",
                                         processes |-> current_status.val.processes])
                         ELSE pc' = "start: Start" /\ UNCHANGED outcome
    /\ UNCHANGED <<params, sapcontrol_path, clock, filterVars>>

\* start_instance: the Start command; the wait loop's clock starts
start_instance_command ==
    /\ pc = "start: Start"
    /\ \E run \in CommandRuns :
          LET command == _run_sapcontrol_command(sapcontrol_path, params.instance_number,
                                                 <<"-function", "Start">>, run)
          IN  /\ commands' = Append(commands, "Start")
              /\ IF command.failed
                 THEN fail_json(command.val) /\ NoCommandResult /\ UNCHANGED clock
                 ELSE /\ command_result' = command.val
                      /\ IF command.val.rc \notin {0, 3}
                         THEN /\ fail_json([msg |-> "Failed to start HANA instance: {}",
                                            stdout |-> command.val.stdout])
                              /\ UNCHANGED clock
                         ELSE clock' = 0 /\ pc' = "start: wait" /\ UNCHANGED outcome
    /\ UNCHANGED <<params, sapcontrol_path, status, filterVars>>

\* a variant of the wait loop's turn that keeps waiting on RED
start_instance_poll_through_red ==
    /\ pc = "start: wait"
    /\ clock < params.timeout
    /\ \E latency \in 0..MaxLatency, run \in PollRuns :
          LET polled == get_instance_status(sapcontrol_path, params.instance_number, run)
          IN  /\ clock' = clock + StartPollInterval + latency
              /\ commands' = Append(commands, "GetProcessList")
              /\ IF polled.failed
                 THEN fail_json(polled.val) /\ NoCommandResult /\ UNCHANGED status
                 ELSE /\ command_result' = CommandResult(run)
                      /\ status' = polled.val
                      /\ IF polled.val.status = "GREEN"
                         THEN exit_json([changed |-> TRUE,
                                         msg |-> "HANA instance started successfully",
                                         status |-> "GREEN",
                                         processes |-> polled.val.processes])
                         ELSE UNCHANGED <<pc, outcome>>
    /\ UNCHANGED <<params, sapcontrol_path, filterVars>>

\* a variant of the wait loop's turn that does not sleep
start_instance_poll_without_sleep ==
    /\ pc = "start: wait"
    /\ clock < params.timeout
    /\ \E latency \in 0..MaxLatency, run \in PollRuns :
          LET polled == get_instance_status(sapcontrol_path, params.instance_number, run)
          IN  /\ clock' = clock + latency
              /\ commands' = Append(commands, "GetProcessList")
              /\ IF polled.failed
                 THEN fail_json(polled.val) /\ NoCommandResult /\ UNCHANGED status
                 ELSE /\ command_result' = CommandResult(run)
                      /\ status' = polled.val
                      /\ IF polled.val.status = "GREEN"
                         THEN exit_json([changed |-> TRUE,
                                         msg |-> "HANA instance started successfully",
                                         status |-> "GREEN",
                                         processes |-> polled.val.processes])
                         ELSE IF polled.val.status = "RED"
                         THEN fail_json(
                                  [msg |-> "HANA instance failed to start properly - status is RED",
                                   processes |-> polled.val.processes])
                         ELSE UNCHANGED <<pc, outcome>>
    /\ UNCHANGED <<params, sapcontrol_path, filterVars>>

\* start_instance: one turn of the wait loop, a sleep and a status poll
start_instance_poll ==
    /\ pc = "start: wait"
    /\ clock < params.timeout
    /\ \E latency \in 0..MaxLatency, run \in PollRuns :
          LET polled == get_instance_status(sapcontrol_path, params.instance_number, run)
          IN  /\ clock' = clock + StartPollInterval + latency
              /\ commands' = Append(commands, "GetProcessList")
              /\ IF polled.failed
                 THEN fail_json(polled.val) /\ NoCommandResult /\ UNCHANGED status
                 ELSE /\ command_result' = CommandResult(run)
                      /\ status' = polled.val
                      /\ IF polled.val.status = "GREEN"
                         THEN exit_json([changed |-> TRUE,
                                         msg |-> "HANA instance started successfully",
                                         status |-> "GREEN",
                                         processes |-> polled.val.processes])
                         ELSE IF polled.val.status = "RED"
                         THEN fail_json(
                                  [msg |-> "HANA instance failed to start properly - status is RED",
                                   processes |-> polled.val.processes])
                         ELSE UNCHANGED <<pc, outcome>>
    /\ UNCHANGED <<params, sapcontrol_path, filterVars>>

\* a variant of the expired wait loop that accepts a GREEN final status
start_instance_timeout_final_green ==
    /\ pc = "start: wait"
    /\ clock >= params.timeout
    /\ \E run \in PollRuns :
          LET final_status ==
                  get_instance_status(sapcontrol_path, params.instance_number, run)
          IN  /\ commands' = Append(commands, "GetProcessList")
              /\ IF final_status.failed
                 THEN fail_json(final_status.val) /\ NoCommandResult /\ UNCHANGED status
                 ELSE /\ command_result' = CommandResult(run)
                      /\ status' = final_status.val
                      /\ IF final_status.val.status = "GREEN"
                         THEN exit_json([changed |-> TRUE,
                                         msg |-> "HANA instance started successfully",
                                         status |-> "GREEN",
                                         processes |-> final_status.val.processes])
                         ELSE fail_json(
                                  [msg |-> "HANA instance startup timed out after {} seconds",
                                   status |-> final_status.val.status,
                                   processes |-> final_status.val.processes])
    /\ UNCHANGED <<params, sapcontrol_path, clock, filterVars>>

\* start_instance: the wait loop has expired
start_instance_timeout ==
    /\ pc = "start: wait"
    /\ clock >= params.timeout
    /\ \E run \in PollRuns :
          LET final_status ==
                  get_instance_status(sapcontrol_path, params.instance_number, run)
          IN  /\ commands' = Append(commands, "GetProcessList")
              /\ IF final_status.failed
                 THEN fail_json(final_status.val) /\ NoCommandResult /\ UNCHANGED status
                 ELSE /\ command_result' = CommandResult(run)
                      /\ status' = final_status.val
                      /\ fail_json(
                             [msg |-> "HANA instance startup timed out after {} seconds",
                              status |-> final_status.val.status,
                              processes |-> final_status.val.processes])
    /\ UNCHANGED <<params, sapcontrol_path, clock, filterVars>>

\* stop_instance: the status check before the instance is stopped
stop_instance ==
    /\ pc = "main"
    /\ params.operation = "stop"
    /\ ~params.check_mode
    /\ \E run \in PollRuns :
          LET current_status ==
                  get_instance_status(sapcontrol_path, params.instance_number, run)
          IN  /\ commands' = Append(commands, "GetProcessList")
              /\ IF current_status.failed
                 THEN fail_json(current_status.val) /\ NoCommandResult /\ UNCHANGED status
                 ELSE /\ command_result' = CommandResult(run)
                      /\ status' = current_status.val
                      /\ IF current_status.val.status = "STOPPED"
                         THEN exit_json([changed |-> FALSE,
                                         msg |-> "HANA instance is already stopped",
                                         status |-> "STOPPED",
                                         processes |-> <<>>])
                         ELSE pc' = "stop: Stop" /\ UNCHANGED outcome
    /\ UNCHANGED <<params, sapcontrol_path, clock, filterVars>>

\* stop_instance: the Stop command; the wait loop's clock starts
stop_instance_command ==
    /\ pc = "stop: Stop"
    /\ \E run \in CommandRuns :
          LET command == _run_sapcontrol_command(sapcontrol_path, params.instance_number,
                                                 <<"-function", "Stop">>, run)
          IN  /\ commands' = Append(commands, "Stop")
              /\ IF command.failed
                 THEN fail_json(command.val) /\ NoCommandResult /\ UNCHANGED clock
                 ELSE /\ command_result' = command.val
                      /\ IF command.val.rc \notin {0, 4}
                         THEN /\ fail_json([msg |-> "Failed to stop HANA instance: {}",
                                            stdout |-> command.val.stdout])
                              /\ UNCHANGED clock
                         ELSE clock' = 0 /\ pc' = "stop: wait" /\ UNCHANGED outcome
    /\ UNCHANGED <<params, sapcontrol_path, status, filterVars>>

\* stop_instance: one turn of the wait loop, a sleep and a status poll
stop_instance_poll ==
    /\ pc = "stop: wait"
    /\ clock < params.timeout
    /\ \E latency \in 0..MaxLatency, run \in PollRuns :
          LET polled == get_instance_status(sapcontrol_path, params.instance_number, run)
          IN  /\ clock' = clock + StopPollInterval + latency
              /\ commands' = Append(commands, "GetProcessList")
              /\ IF polled.failed
                 THEN fail_json(polled.val) /\ NoCommandResult /\ UNCHANGED status
                 ELSE /\ command_result' = CommandResult(run)
                      /\ status' = polled.val
                      /\ IF polled.val.status = "STOPPED"
                         THEN exit_json([changed |-> TRUE,
                                         msg |-> "HANA instance stopped successfully",
                                         status |-> "STOPPED",
                                         processes |-> <<>>])
                         ELSE UNCHANGED <<pc, outcome>>
    /\ UNCHANGED <<params, sapcontrol_path, filterVars>>

\* a variant of the expired wait loop that accepts a STOPPED final status
stop_instance_timeout_final_stopped ==
    /\ pc = "stop: wait"
    /\ clock >= params.timeout
    /\ \E run \in PollRuns :
          LET final_status ==
                  get_instance_status(sapcontrol_path, params.instance_number, run)
          IN  /\ commands' = Append(commands, "GetProcessList")
              /\ IF final_status.failed
                 THEN fail_json(final_status.val) /\ NoCommandResult /\ UNCHANGED status
                 ELSE /\ command_result' = CommandResult(run)
                      /\ status' = final_status.val
                      /\ IF final_status.val.status = "STOPPED"
                         THEN exit_json([changed |-> TRUE,
                                         msg |-> "HANA instance stopped successfully",
                                         status |-> "STOPPED",
                                         processes |-> <<>>])
                         ELSE fail_json(
                                  [msg |-> "HANA instance shutdown timed out after {} seconds",
                                   status |-> final_status.val.status,
                                   processes |-> final_status.val.processes])
    /\ UNCHANGED <<params, sapcontrol_path, clock, filterVars>>

\* stop_instance: the wait loop has expired
stop_instance_timeout ==
    /\ pc = "stop: wait"
    /\ clock >= params.timeout
    /\ \E run \in PollRuns :
          LET final_status ==
                  get_instance_status(sapcontrol_path, params.instance_number, run)
          IN  /\ commands' = Append(commands, "GetProcessList")
              /\ IF final_status.failed
                 THEN fail_json(final_status.val) /\ NoCommandResult /\ UNCHANGED status
                 ELSE /\ command_result' = CommandResult(run)
                      /\ status' = final_status.val
                      /\ fail_json(
                             [msg |-> "HANA instance shutdown timed out after {} seconds",
                              status |-> final_status.val.status,
                              processes |-> final_status.val.processes])
    /\ UNCHANGED <<params, sapcontrol_path, clock, filterVars>>

\* a variant of the status check that runs hdbnsutil whatever it reads
check_replication_status_unconditional ==
    /\ pc = "main"
    /\ params.operation = "check_replication"
    /\ \E run \in PollRuns :
          LET instance_status ==
                  get_instance_status(sapcontrol_path, params.instance_number, run)
          IN  /\ commands' = Append(commands, "GetProcessList")
              /\ IF instance_status.failed
                 THEN fail_json(instance_status.val) /\ NoCommandResult /\ UNCHANGED status
                 ELSE /\ command_result' = CommandResult(run)
                      /\ status' = instance_status.val
                      /\ pc' = "check_replication: hdbnsutil"
                      /\ UNCHANGED outcome
    /\ UNCHANGED <<params, sapcontrol_path, clock, filterVars>>

\* check_replication_status: the status check before hdbnsutil is run
check_replication_status ==
    /\ pc = "main"
    /\ params.operation = "check_replication"
    /\ \E run \in PollRuns :
          LET instance_status ==
                  get_instance_status(sapcontrol_path, params.instance_number, run)
          IN  /\ commands' = Append(commands, "GetProcessList")
              /\ IF instance_status.failed
                 THEN fail_json(instance_status.val) /\ NoCommandResult /\ UNCHANGED status
                 ELSE /\ command_result' = CommandResult(run)
                      /\ status' = instance_status.val
                      /\ IF instance_status.val.status # "GREEN"
                         THEN exit_json(
                                  [changed |-> FALSE,
                                   msg |-> "HANA instance must be running to check replication status",
                                   status |-> instance_status.val.status,
                                   replication_status |-> None])
                         ELSE pc' = "check_replication: hdbnsutil" /\ UNCHANGED outcome
    /\ UNCHANGED <<params, sapcontrol_path, clock, filterVars>>

\* check_replication_status: hdbnsutil -sr_state is run and its output parsed
check_replication_status_hdbnsutil ==
    /\ pc = "check_replication: hdbnsutil"
    /\ \E run \in HdbnsutilRuns :
          LET result_dict == RunHdbnsutil(run)
          IN  /\ commands' = Append(commands, "hdbnsutil")
              /\ IF result_dict.failed
                 THEN fail_json(result_dict.val) /\ NoCommandResult
                 ELSE /\ command_result' = result_dict.val
                      /\ exit_json(
                             [changed |-> FALSE,
                              msg |-> "System replication status retrieved successfully",
                              status |-> status.status,
                              replication_status |->
                                  ReplicationInfo(result_dict.val.stdout)])
    /\ UNCHANGED <<params, sapcontrol_path, clock, status, filterVars>>

\* main: the manager method called for the operation raises an exception
\* of its own before it has run a command (the methods catch what their
\* commands raise; this is any other exception, as from a replaced method)
UnexpectedException ==
    /\ pc = "main"
    /\ pc' = "except Exception"
    /\ UNCHANGED <<params, sapcontrol_path, clock, command_result, status, commands,
                   outcome, filterVars>>

\* a variant of the handler that reports the initial result instead
UnexpectedErrorSwallowed ==
    /\ pc = "except Exception"
    /\ exit_json([changed |-> FALSE, msg |-> "Unknown operation", status |-> "UNKNOWN"])
    /\ UNCHANGED <<params, sapcontrol_path, clock, command_result, status, commands,
                   filterVars>>

\* main: except Exception as e
UnexpectedError ==
    /\ pc = "except Exception"
    /\ fail_json([msg |-> "Unexpected error: {}"])
    /\ UNCHANGED <<params, sapcontrol_path, clock, command_result, status, commands,
                   filterVars>>

NextLifecycle ==
    \/ Construct
    \/ StatusOperation
    \/ CheckModeOperation
    \/ start_instance
    \/ start_instance_command
    \/ start_instance_poll
    \/ start_instance_timeout
    \/ stop_instance
    \/ stop_instance_command
    \/ stop_instance_poll
    \/ stop_instance_timeout
    \/ check_replication_status
    \/ check_replication_status_hdbnsutil
    \/ UnexpectedException
    \/ UnexpectedError

SpecLifecycle == InitLifecycle /\ [][NextLifecycle]_vars

\* the runs of the operations start and stop
InitStartStop ==
    /\ InitLifecycle
    /\ params.operation \in {"start", "stop"}

NextStartStop ==
    \/ Construct
    \/ CheckModeOperation
    \/ start_instance
    \/ start_instance_command
    \/ start_instance_poll
    \/ start_instance_timeout
    \/ stop_instance
    \/ stop_instance_command
    \/ stop_instance_poll
    \/ stop_instance_timeout
    \/ UnexpectedException
    \/ UnexpectedError

\* the module is a sequential program: as long as the run has not ended its
\* next step is taken
SpecStartStop == InitStartStop /\ [][NextStartStop]_vars /\ WF_vars(NextStartStop)

\* ------------------------------------------------- claims on the lifecycle
\* the run ended because a command could not be run to completion
CommandFailed(o) == o.call = "fail_json" /\ "cmd" \in DOMAIN o.args

\* this step ran GetProcessList to completion and read a status from it
StatusObserved ==
    /\ commands' = Append(commands, "GetProcessList")
    /\ ~CommandFailed(outcome')

\* this step is a poll of start_instance's wait loop that read a status
StartPollObserved == pc = "start: wait" /\ clock < params.timeout /\ StatusObserved

\* C15: the wait loop of start_instance is entered only after a status other
\* than GREEN and an accepted Start command, and all it runs is status
\* polls.  The first poll that reads GREEN ends the operation with
\* changed=True and 'HANA instance started successfully'; a poll that reads
\* RED ends it at once with the failure 'HANA instance failed to start
\* properly - status is RED'; a poll that reads YELLOW, STOPPED or UNKNOWN
\* ends nothing and the loop goes on.
StartPolling ==
    [][/\ pc' = "start: wait" /\ pc # "start: wait"
          => /\ pc = "start: Start"
             /\ status.status # "GREEN"
             /\ commands' = <<"GetProcessList", "Start">>
             /\ command_result'.rc \in {0, 3}
       /\ StartPollObserved
          => /\ status'.status \in {"GREEN", "YELLOW", "RED", "STOPPED", "UNKNOWN"}
             /\ status'.status = "GREEN"
                => /\ pc' = "exited"
                   /\ outcome'.call = "exit_json"
                   /\ outcome'.args = [changed |-> TRUE,
                                       msg |-> "HANA instance started successfully",
                                       status |-> "GREEN",
                                       processes |-> status'.processes]
             /\ status'.status = "RED"
                => /\ pc' = "exited"
                   /\ outcome'.call = "fail_json"
                   /\ outcome'.args.msg =
                          "HANA instance failed to start properly - status is RED"
             /\ status'.status \in {"YELLOW", "STOPPED", "UNKNOWN"}
                => /\ pc' = "start: wait"
                   /\ outcome'.call = ""]_vars

\* a start that waited through a poll that was not GREEN and then succeeded
StartPollingWitness ==
    /\ pc = "exited"
    /\ outcome.call = "exit_json"
    /\ outcome.args.msg = "HANA instance started successfully"
    /\ Len(commands) >= 4

\* the wait loop's test finds the deadline passed: no poll has read the
\* target state, or the run would have ended
DeadlinePassed(operation) ==
    /\ pc = operation \o ": wait"
    /\ clock >= params.timeout

\* the message of the failure that reports the expired wait loop
TimedOutMessage(operation) ==
    IF operation = "start" THEN "HANA instance startup timed out after {} seconds"
    ELSE "HANA instance shutdown timed out after {} seconds"

\* C16 as stated: when the wait loop's deadline has passed without a poll
\* having read the target state, start_instance fails with the 'startup
\* timed out' message and stop_instance with the 'shutdown timed out'
\* message.
TimeoutAlwaysReported ==
    [][\A operation \in {"start", "stop"} :
          DeadlinePassed(operation)
          => /\ outcome'.call = "fail_json"
             /\ outcome'.args.msg = TimedOutMessage(operation)]_vars

\* C16: when the wait loop's deadline has passed without a poll having read
\* the target state, the operation ends with a failure and never with a
\* success: the status is read once more, and the failure carries the
\* 'startup timed out' (start) or 'shutdown timed out' (stop) message with
\* the status and processes just read, whatever that status is, unless the
\* command of that last read fails itself, and then the failure is the
\* command's.
TimeoutFails ==
    [][\A operation \in {"start", "stop"} :
          DeadlinePassed(operation)
          => /\ pc' = "exited"
             /\ outcome'.call = "fail_json"
             /\ commands' = Append(commands, "GetProcessList")
             /\ ~CommandFailed(outcome')
                => outcome'.args = [msg |-> TimedOutMessage(operation),
                                   status |-> status'.status,
                                   processes |-> status'.processes]]_vars

\* a start whose wait loop expired after a poll, with GREEN read at the end
TimeoutWitness ==
    /\ pc = "exited"
    /\ outcome.call = "fail_json"
    /\ outcome.args.msg = "HANA instance startup timed out after {} seconds"
    /\ outcome.args.status = "GREEN"
    /\ Len(commands) >= 4

\* the state the operation is to bring about, and the command that does it
TargetStatus(operation) == IF operation = "start" THEN "GREEN" ELSE "STOPPED"

CommandOf(operation) == IF operation = "start" THEN "Start" ELSE "Stop"

AlreadyMessage(operation) ==
    IF operation = "start" THEN "HANA instance is already running"
    ELSE "HANA instance is already stopped"

\* this step is the first status read of start_instance or stop_instance
InitialStatusRead(operation) ==
    /\ pc = "main"
    /\ params.operation = operation
    /\ ~params.check_mode
    /\ StatusObserved

\* C17: start_instance that reads GREEN first, and stop_instance that reads
\* STOPPED first, end with changed=False after that one status read: no
\* Start or Stop command and no poll follows.  After any other first status
\* the next thing the operation does is to run its Start or Stop command.
NoOpInTargetState ==
    [][\A operation \in {"start", "stop"} :
          /\ InitialStatusRead(operation)
             => IF status'.status = TargetStatus(operation)
                THEN /\ pc' = "exited"
                     /\ outcome'.call = "exit_json"
                     /\ outcome'.args.changed = FALSE
                     /\ outcome'.args.msg = AlreadyMessage(operation)
                     /\ outcome'.args.status = TargetStatus(operation)
                     /\ commands' = <<"GetProcessList">>
                ELSE /\ pc' = operation \o ": " \o CommandOf(operation)
                     /\ outcome'.call = ""
          /\ pc = operation \o ": " \o CommandOf(operation)
             => /\ status.status # TargetStatus(operation)
                /\ commands' = <<"GetProcessList", CommandOf(operation)>>
          /\ pc # "exited"]_vars

\* a start that found the instance running
NoOpWitness ==
    /\ pc = "exited"
    /\ params.operation = "start"
    /\ ~params.check_mode
    /\ outcome.call = "exit_json"
    /\ outcome.args.msg = "HANA instance is already running"
    /\ commands = <<"GetProcessList">>

\* the last thing the run did was to read the status from a completed
\* GetProcessList command
StatusIsRead ==
    /\ commands # <<>>
    /\ commands[Len(commands)] = "GetProcessList"
    /\ ~CommandFailed(outcome)

\* the fields of an output line
Fields(line) == StripAll(Split(line, Comma))

\* an output line that describes a process of the instance
IsProcessLine(line) ==
    /\ ~Contains(line, HeaderText)
    /\ Strip(line) # <<>>
    /\ Contains(line, Comma)
    /\ Contains(Lower(line), Hdb)
    /\ Len(Fields(line)) >= 7
    /\ Fields(line)[3] \in {Green, Yellow, Red}

\* the processes an output describes, in the order of their lines
ParsedProcesses(stdout) ==
    LET lines == SelectSeq(Split(stdout, Newline), IsProcessLine)
    IN  [i \in DOMAIN lines |-> [name |-> Fields(lines[i])[1],
                                 status |-> Fields(lines[i])[3]]]

\* the worst of the statuses of some processes
WorstCase(processes) ==
    IF processes = <<>> THEN "STOPPED"
    ELSE IF \E i \in DOMAIN processes : processes[i].status = Red THEN "RED"
    ELSE IF \E i \in DOMAIN processes : processes[i].status = Yellow THEN "YELLOW"
    ELSE "GREEN"

\* the outputs that have the lines of an output in another order
Reordered(stdout) ==
    LET lines == Split(stdout, Newline)
    IN  { Join([i \in DOMAIN lines |-> lines[f[i]]], Newline) :
              f \in Permutations(DOMAIN lines) }

\* C18: a status read from a command that ended with return code 0 or 3
\* lists exactly the processes the output describes, each with its own
\* status, and its overall status is the worst of them: RED if one is RED,
\* else YELLOW if one is YELLOW, else GREEN, and STOPPED if the output
\* describes no process.  The overall status is the same for every order of
\* the output's lines, and the status operation returns this status and
\* this list.
WorstCaseStatus ==
    /\ StatusIsRead /\ command_result.rc \in {0, 3}
       => /\ status.processes = ParsedProcesses(command_result.stdout)
          /\ status.status = WorstCase(status.processes)
          /\ \A stdout \in Reordered(command_result.stdout) :
                 StatusOf([rc |-> command_result.rc, stdout |-> stdout]).status
                     = status.status
    /\ params.operation = "status" /\ outcome.call = "exit_json"
       => /\ outcome.args.status = status.status
          /\ outcome.args.processes = status.processes

\* the status operation read a RED process followed by a GREEN one
WorstCaseWitness ==
    /\ pc = "exited"
    /\ params.operation = "status"
    /\ outcome.call = "exit_json"
    /\ command_result.rc = 3
    /\ outcome.args.status = "RED"
    /\ Len(outcome.args.processes) = 2
    /\ outcome.args.processes[1].status = Red
    /\ outcome.args.processes[2].status = Green

\* C19: the status get_instance_status returns is always one of GREEN,
\* YELLOW, RED, STOPPED and UNKNOWN.  Return code 4 gives STOPPED with no
\* processes whatever the output says; a return code other than 0, 3 and 4,
\* and a command result that is missing, give UNKNOWN with no processes.
StatusClassified ==
    /\ status # NoStatus
       => status.status \in {"GREEN", "YELLOW", "RED", "STOPPED", "UNKNOWN"}
    /\ StatusIsRead
       => /\ command_result.rc = 4
             => status = [status |-> "STOPPED", processes |-> <<>>]
          /\ command_result.rc \notin {0, 3, 4}
             => status = [status |-> "UNKNOWN", processes |-> <<>>]
    /\ StatusOf(NoResult) = [status |-> "UNKNOWN", processes |-> <<>>]

\* return code 4 came with an output that describes a GREEN process
StatusClassifiedWitness ==
    /\ StatusIsRead
    /\ command_result.rc = 4
    /\ Contains(command_result.stdout, DaemonGreen)
    /\ status.status = "STOPPED"

\* C20: check_replication_status that reads a status other than GREEN
\* returns changed=False, replication_status None, the status it read and
\* the message 'HANA instance must be running to check replication
\* status', and has run nothing but the status read.  hdbnsutil is run by
\* this operation alone and only after GREEN has been read.
ReplicationNeedsRunning ==
    /\ params.operation = "check_replication" /\ status # NoStatus
       /\ status.status # "GREEN"
       => /\ pc = "exited"
          /\ outcome.call = "exit_json"
          /\ DOMAIN outcome.args = {"changed", "msg", "status", "replication_status"}
          /\ outcome.args.changed = FALSE
          /\ outcome.args.replication_status = None
          /\ outcome.args.status = status.status
          /\ outcome.args.msg =
                 "HANA instance must be running to check replication status"
          /\ commands = <<"GetProcessList">>
    /\ "hdbnsutil" \in Range(commands) \/ pc = "check_replication: hdbnsutil"
       => /\ params.operation = "check_replication"
          /\ status.status = "GREEN"
          /\ commands \in {<<"GetProcessList">>, <<"GetProcessList", "hdbnsutil">>}

\* the replication check found the instance in state YELLOW
ReplicationNeedsRunningWitness ==
    /\ pc = "exited"
    /\ params.operation = "check_replication"
    /\ status.status = "YELLOW"
    /\ outcome.call = "exit_json"
    /\ outcome.args.msg = "HANA instance must be running to check replication status"

\* C21: in check mode the start and stop operations run neither
\* start_instance nor stop_instance and no Start or Stop command: all they
\* run is one status read, after which exit_json is called, once, with the
\* status read and changed = (status # GREEN) for start and changed =
\* (status # STOPPED) for stop.
CheckModeOnlyReads ==
    /\ params.check_mode /\ params.operation \in {"start", "stop"}
       => /\ pc \in {"__init__", "main", "except Exception", "exited"}
          /\ commands \in {<<>>, <<"GetProcessList">>}
          /\ StatusIsRead
             => /\ pc = "exited"
                /\ outcome.call = "exit_json"
                /\ DOMAIN outcome.args = {"changed", "msg", "status"}
                /\ outcome.args.status = status.status
                /\ outcome.args.changed
                       = (status.status # TargetStatus(params.operation))
          /\ outcome.call = "exit_json" => StatusIsRead

\* a start in check mode that found the instance stopped
CheckModeWitness ==
    /\ params.check_mode
    /\ params.operation = "start"
    /\ pc = "exited"
    /\ status.status = "STOPPED"
    /\ outcome.call = "exit_json"
    /\ outcome.args.changed

\* the command that only the manager method of an operation runs
OwnCommands(operation) ==
    CASE operation = "start" -> {"Start"}
      [] operation = "stop" -> {"Stop"}
      [] operation = "check_replication" -> {"hdbnsutil"}
      [] OTHER -> {}

\* the messages of the results the manager method of an operation returns
\* (the status operation's message is added by main)
ResultMessages(operation) ==
    CASE operation = "status" -> {"HANA instance status: {}"}
      [] operation = "start" -> {"HANA instance is already running",
                                 "HANA instance started successfully"}
      [] operation = "stop" -> {"HANA instance is already stopped",
                                "HANA instance stopped successfully"}
      [] operation = "check_replication" ->
             {"HANA instance must be running to check replication status",
              "System replication status retrieved successfully"}
      [] OTHER -> {}

\* the positions of the run inside the manager method of an operation
MethodPositions(operation) ==
    CASE operation = "start" -> {"start: Start", "start: wait"}
      [] operation = "stop" -> {"stop: Stop", "stop: wait"}
      [] operation = "check_replication" -> {"check_replication: hdbnsutil"}
      [] OTHER -> {}

\* C22: outside check mode main runs the manager method of the operation
\* and no other, once: the run is at no position of another method, runs no
\* command of another method, and never comes back to the point of the
\* call.  exit_json is called with the result that method returns, and the
\* call ends the run, so that it is called once and fail_json not at all.
\* When the method raises an exception main calls fail_json with the
\* message 'Unexpected error: ...', once, and exit_json is not called.
MainDispatch ==
    [][/\ ~params.check_mode
          => /\ pc' \in {"__init__", "main", "except Exception", "exited"}
                       \cup MethodPositions(params.operation)
             /\ Range(commands') \subseteq
                    {"GetProcessList"} \cup OwnCommands(params.operation)
             /\ outcome'.call = "exit_json"
                => /\ outcome'.args.msg \in ResultMessages(params.operation)
                   /\ outcome'.args.status = status'.status
                   /\ outcome'.args.changed
                          = (outcome'.args.msg \in {"HANA instance started successfully",
                                                  "HANA instance stopped successfully"})
       /\ pc' = "main" => pc = "__init__"
       /\ pc = "except Exception"
          => /\ pc' = "exited"
             /\ outcome' = [call |-> "fail_json",
                            args |-> [msg |-> "Unexpected error: {}"]]
       /\ pc # "exited" /\ outcome.call = ""
       /\ pc' = "exited" <=> outcome'.call \in {"exit_json", "fail_json"}]_vars

\* a stop whose manager method raised
MainDispatchWitness ==
    /\ ~params.check_mode
    /\ params.operation = "stop"
    /\ pc = "exited"
    /\ commands = <<>>
    /\ outcome.call = "fail_json"
    /\ outcome.args.msg = "Unexpected error: {}"

\* the replication check has run hdbnsutil and returned what it parsed
ReplicationRetrieved ==
    /\ pc = "exited"
    /\ outcome.call = "exit_json"
    /\ outcome.args.msg = "System replication status retrieved successfully"

\* a line of the hdbnsutil output that gives the mode
IsModeLine(line) == StartsWith(Strip(line), ModeKey)

\* the modes that the mode lines of an output give, in the order of the lines
Modes(stdout) ==
    LET lines == SelectSeq(Split(stdout, Newline), IsModeLine)
    IN  [i \in DOMAIN lines |->
             Strip(SubSeq(Strip(lines[i]), Len(ModeKey) + 1, Len(Strip(lines[i]))))]

\* C23: every result of check_replication_status has changed=False, and in
\* the replication_status it returns is_primary and is_secondary are never
\* both true.  When the hdbnsutil output has one mode line, mode 'primary'
\* gives is_primary true and is_secondary false; 'sync', 'syncmem' and
\* 'async' give is_primary false and is_secondary true; 'none' gives mode
\* 'DISABLED' and both false.
ReplicationRole ==
    /\ params.operation = "check_replication" /\ outcome.call = "exit_json"
       => outcome.args.changed = FALSE
    /\ ReplicationRetrieved
       => LET info == outcome.args.replication_status
              modes == Modes(command_result.stdout)
          IN  /\ ~(info.is_primary /\ info.is_secondary)
              /\ Len(modes) = 1
                 => /\ modes[1] = Primary
                       => /\ info.mode = Primary
                          /\ info.is_primary
                          /\ ~info.is_secondary
                    /\ modes[1] \in {Sync, Syncmem, Async}
                       => /\ info.mode = modes[1]
                          /\ ~info.is_primary
                          /\ info.is_secondary
                    /\ modes[1] = NoneMode
                       => /\ info.mode = Disabled
                          /\ ~info.is_primary
                          /\ ~info.is_secondary

\* the replication check read the mode 'syncmem' and another line
ReplicationRoleWitness ==
    /\ ReplicationRetrieved
    /\ Modes(command_result.stdout) = <<Syncmem>>
    /\ Len(Split(command_result.stdout, Newline)) = 2
    /\ outcome.args.replication_status.is_secondary

\* the messages of the failures of a command that did not complete
CommandFailureMessages ==
    {"sapcontrol command timed out after {} seconds",
     "Failed to execute sapcontrol command: {}",
     "hdbnsutil command timed out after {} seconds",
     "Failed to execute hdbnsutil command: {}"}

NotFoundMessage == "sapcontrol executable not found. Tried: {}, {}"

\* this step started a command that did not complete
CommandNotCompleted ==
    /\ commands' # commands
    /\ "rc" \notin DOMAIN command_result'

\* this step is the constructor finding no sapcontrol
SapcontrolNotFound == pc = "__init__" /\ pc' # "main"

\* C24 as stated: a command that runs into the timeout, a sapcontrol that
\* is not found and a command that cannot be run each end the run with a
\* fail_json whose payload has a message and the command line.
FailuresCarryCommandLine ==
    [][CommandNotCompleted \/ SapcontrolNotFound
       => /\ pc' = "exited"
          /\ outcome'.call = "fail_json"
          /\ outcome'.args.msg \in CommandFailureMessages \cup {NotFoundMessage}
          /\ "cmd" \in DOMAIN outcome'.args]_vars

\* C24: a command that runs into the timeout or cannot be run (as a
\* sapcontrol that is a file but cannot be executed) ends the run with one
\* fail_json whose payload is a message that names the failure and the
\* command line of that command.  A sapcontrol that is found at none of
\* the paths ends the run in the constructor, before any command, with one
\* fail_json whose payload is the message alone (it lists the paths tried);
\* there is no command line in it.
FailuresSurfaced ==
    [][/\ CommandNotCompleted
          => /\ pc' = "exited"
             /\ outcome'.call = "fail_json"
             /\ DOMAIN outcome'.args = {"msg", "cmd"}
             /\ outcome'.args.msg \in CommandFailureMessages
             /\ outcome'.args.cmd \in
                    { <<sapcontrol_path, "-nr", params.instance_number,
                        "-function", commands'[Len(commands')]>>,
                      <<"/usr/sap/{}/HDB{}/exe/hdbnsutil", "-sr_state">> }
       /\ SapcontrolNotFound
          => /\ pc' = "exited"
             /\ outcome' = [call |-> "fail_json", args |-> [msg |-> NotFoundMessage]]
             /\ commands' = <<>>
       /\ pc # "exited"]_vars

\* the constructor found no sapcontrol
FailuresSurfacedWitness ==
    /\ pc = "exited"
    /\ commands = <<>>
    /\ outcome.call = "fail_json"
    /\ outcome.args.msg = NotFoundMessage

\* the message of the result that reports the change
SuccessMessage(operation) ==
    IF operation = "start" THEN "HANA instance started successfully"
    ELSE "HANA instance stopped successfully"

\* C27: the status read after the wait loop has expired never makes the
\* operation succeed: when it reads GREEN (start) or STOPPED (stop) the
\* operation still fails with its timed-out message, which reports that
\* status.  The successful result comes only from a poll inside the wait
\* loop, taken before the deadline, that read the target status.
FinalReadOnlyReports ==
    [][\A operation \in {"start", "stop"} :
          /\ DeadlinePassed(operation) /\ StatusObserved
             /\ status'.status = TargetStatus(operation)
             => /\ outcome'.call = "fail_json"
                /\ outcome'.args.msg = TimedOutMessage(operation)
                /\ outcome'.args.status = TargetStatus(operation)
          /\ outcome'.call = "exit_json" /\ params.operation = operation
             /\ outcome'.args.msg = SuccessMessage(operation)
             => /\ pc = operation \o ": wait"
                /\ clock < params.timeout
                /\ StatusObserved
                /\ status'.status = TargetStatus(operation)]_vars

\* a stop whose wait loop expired and whose last status read was STOPPED
FinalReadWitness ==
    /\ pc = "exited"
    /\ params.operation = "stop"
    /\ outcome.call = "fail_json"
    /\ outcome.args.msg = "HANA instance shutdown timed out after {} seconds"
    /\ outcome.args.status = "STOPPED"

\* the sleep of a turn of the wait loop
PollInterval(operation) ==
    IF operation = "start" THEN StartPollInterval ELSE StopPollInterval

\* the timeout divided by the sleep, rounded up
MaxPolls(operation) ==
    IF params.timeout <= 0 THEN 0
    ELSE (params.timeout + PollInterval(operation) - 1) \div PollInterval(operation)

\* C28: start_instance and stop_instance end, with one call of exit_json or
\* fail_json and nothing after it.  They run their Start or Stop command at
\* most once, and the wait loop polls the status at most ceil(timeout/10)
\* times for start and ceil(timeout/5) times for stop, never when the
\* timeout is 0 or less.
BoundedWait ==
    /\ [][\A operation \in {"start", "stop"} :
            /\ params.operation = operation
               => Cardinality({i \in DOMAIN commands' :
                                 commands'[i] = CommandOf(operation)}) <= 1
            /\ pc = operation \o ": wait"
               => /\ SubSeq(commands, 1, 2) = <<"GetProcessList", CommandOf(operation)>>
                  /\ Len(commands) - 2 <= MaxPolls(operation)
                  /\ clock < params.timeout
                     => /\ Len(commands) - 2 < MaxPolls(operation)
                        /\ commands' = Append(commands, "GetProcessList")
                  /\ clock >= params.timeout => pc' = "exited"
            /\ pc # "exited"
            /\ pc' = "exited" <=> outcome'.call \in {"exit_json", "fail_json"}]_vars
    /\ pc = "__init__" ~> pc = "exited"

\* a start that polled as often as its timeout allows and then timed out
BoundedWaitWitness ==
    /\ pc = "exited"
    /\ params.operation = "start"
    /\ params.timeout = MaxTimeout
    /\ Len(commands) = 2 + MaxPolls("start") + 1
    /\ outcome.args.msg = "HANA instance startup timed out after {} seconds"

====
